---- MODULE Spec2Model ----
(***************************************************************************)
(* A model of dbarf's view-graph and track subsystem:                      *)
(*   dbarf/utils/union_find.py      UnionFind                              *)
(*   dbarf/geometry/track.py        TrackBuilder                           *)
(*   dbarf/pose_util.py             PoseInitializer                        *)
(*   dbarf/data_loaders/data_utils.py  get_nearby_view_ids                 *)
(* Python lists and dicts are 0-based here as in the source: a list is a   *)
(* function over 0 .. n-1 where the code indexes it, and a TLA+ sequence   *)
(* where the code only appends to and iterates over it.                    *)
(***************************************************************************)
EXTENDS Integers, Sequences, FiniteSets, TLC

VARIABLES
    uf,                 \* a UnionFind object: its fields as a record
    validate_result,    \* outcome of the last UnionFind.validate() call
    uf_call,            \* the last call on uf: the method, whether it was a
                        \* union that returned early, and whether it changed parents
    merged,             \* the classes that the accepted unions have formed: the
                        \* class name of every dense index
    linked,             \* the classes that all union calls, accepted or not, have
                        \* linked: the class name of every dense index
    dense,              \* a UnionFind with the default identity mapping that gets
                        \* every call on uf with the dense indices of its
                        \* arguments, and the outcome of its last validate()
    tb,                 \* the TrackBuilder that builds, filters and writes
    tb_pc,              \* how far the track pipeline has come: "new", "built",
                        \* "filtered", "written", "read", "reader_filtered", or
                        \* "aborted" by an exception
    tb_result,          \* outcome of the last call on tb: "ok" or the exception
    tracks_before,      \* tb.consistent_tracks as it was before the last call on tb
    filter_calls,       \* the number of filter() calls on tb so far, 2 standing
                        \* for two or more
    track_file,         \* the track file: whether it exists, and its characters
    reader,             \* a second TrackBuilder, which reads the track file
    reader_result,      \* outcome of the last call on reader
    reader_image_ids,   \* the image_ids argument of read_from_file on reader
    build_input,        \* the arguments of build on tb (kept in SpecBuild)
    pose_edges,         \* the EDGE_SE3:QUAT lines of the pose-graph file, in file
                        \* order: src, dst, the relative pose, and its rotation
                        \* error against the pseudo ground truth, in degrees
    image_pair_to_matches_num,  \* the match-count table of the database
    view_graph,         \* PoseInitializer.view_graph: two_view_geometries, graph
    vg_pc,              \* "init" before _load_view_graph has run, then "loaded"
    idx_to_node_id,     \* a data loader's table: index in the train set -> image id
    node_id_to_idx,     \* and its inverse: image id -> index in the train set
    nearby,             \* the last get_nearby_view_ids call: arguments and outcome
    two_view_geometries,    \* init_global_rotations_from_mst's argument: a dict
                            \* (i, j) -> (relative rotation, number of matches)
    ref_image_id,       \* PoseInitializer.ref_image_id
    ref_image_rotation, \* PoseInitializer.ref_image_rotation
    mst_pc,             \* "start", "loop" (the while loop), "done" or "raised"
    mst,                \* the minimum spanning tree (a networkx.Graph)
    visited,            \* the local list visited
    qu,                 \* the local PriorityQueue: entries [priority, i, j]
    rotations,          \* the local tensor init_global_rotations
    init_global_rotations,  \* the attribute self.init_global_rotations
    mst_log,            \* what the propagation has done so far: how often each
                        \* node's rotation was assigned by compute_rotation, and
                        \* the edges (i, j) put on the queue, in order
    match_rows,         \* the rows of the database table two_view_geometries
    load_pc,            \* "start" or "done": load_track_elements has returned
    load_result              \* what load_track_elements returned

ufVars == <<uf, validate_result, uf_call, merged, linked, dense>>
tbVars == <<tb, tb_pc, tb_result, tracks_before, filter_calls, track_file, reader, reader_result,
            reader_image_ids, build_input>>
vgVars == <<pose_edges, image_pair_to_matches_num, view_graph, vg_pc>>
selVars == <<idx_to_node_id, node_id_to_idx, nearby>>
mstVars == <<two_view_geometries, ref_image_id, ref_image_rotation, mst_pc, mst,
             visited, qu, rotations, init_global_rotations, mst_log>>
loadVars == <<match_rows, load_pc, load_result>>

vars == <<uf, validate_result, uf_call, merged, linked, dense, tb, tb_pc, tb_result, tracks_before, filter_calls,
          track_file, reader,
          reader_result, reader_image_ids, build_input, pose_edges, image_pair_to_matches_num, view_graph, vg_pc,
          idx_to_node_id, node_id_to_idx, nearby, two_view_geometries, ref_image_id,
          ref_image_rotation, mst_pc, mst, visited, qu, rotations, mst_log,
          init_global_rotations, match_rows, load_pc, load_result>>

\* Python's None, a value outside every integer range the model uses.
None == 0 - 1

Min(a, b) == IF a <= b THEN a ELSE b

(***************************************************************************)
(* UnionFind (dbarf/utils/union_find.py)                                   *)
(***************************************************************************)

\* Number of nodes of the UnionFind objects of SpecUF.
UFSize == 4

\* External id given to dense index i by init_with_nodes in SpecUF: ids that
\* are neither sequential nor start at 0.
ExternalId(i) == 10 + 3 * i

\* UnionFind.__init__(size, max_num_per_set)
UnionFind(size, cap) ==
    [ max_num_per_set |-> cap,
      ranks           |-> [i \in 0 .. size - 1 |-> 0],
      parents         |-> [i \in 0 .. size - 1 |-> i],
      nodes           |-> [i \in 0 .. size - 1 |-> i],
      node_mapper     |-> [i \in 0 .. size - 1 |-> i],
      component_size  |-> [i \in 0 .. size - 1 |-> 1] ]

\* A faulty variant of init_with_nodes that numbers the nodes from the end.
init_with_nodesReversed(u, nds) ==
    [u EXCEPT !.nodes = nds,
              !.node_mapper = [x \in {nds[i] : i \in DOMAIN nds} |->
                                  CHOOSE i \in DOMAIN nds :
                                      nds[Cardinality(DOMAIN nds) - 1 - i] = x]]

\* UnionFind.init_with_nodes(nodes): nds is the list of external ids.
init_with_nodes(u, nds) ==
    [u EXCEPT !.nodes = nds,
              !.node_mapper = [x \in {nds[i] : i \in DOMAIN nds} |->
                                  CHOOSE i \in DOMAIN nds :
                                      /\ nds[i] = x
                                      /\ \A k \in DOMAIN nds : nds[k] = x => k <= i]]

\* A faulty variant of find_root that returns the parent of x.
find_rootParent(u, x) == [root |-> u.parents[u.node_mapper[x]], uf |-> u]

\* UnionFind.find_root(x): the root index of external id x, and parents after
\* the path compression the recursion performs on its way back.
RECURSIVE find_root(_, _)
find_root(u, x) ==
    LET idx == u.node_mapper[x] IN
    IF u.parents[idx] = idx
    THEN [root |-> idx, uf |-> u]
    ELSE LET r == find_root(u, u.nodes[u.parents[idx]])
         IN  [root |-> r.root,
              uf   |-> [r.uf EXCEPT !.parents[idx] = r.root]]

\* A faulty variant of CapExceeded that lets a merge through when it exceeds
\* the cap by one.
CapExceededOffByOne(u, x, y) ==
    /\ u.max_num_per_set # None
    /\ u.component_size[x] + u.component_size[y] > u.max_num_per_set + 1

\* A faulty variant of CapExceeded that takes a missing cap for a cap of 2.
CapExceededDefaultCap(u, x, y) ==
    u.component_size[x] + u.component_size[y]
        > (IF u.max_num_per_set = None THEN 2 ELSE u.max_num_per_set)

\* union's second early return: merging would exceed max_num_per_set.
CapExceeded(u, x, y) ==
    /\ u.max_num_per_set # None
    /\ u.component_size[x] + u.component_size[y] > u.max_num_per_set

\* A faulty variant of union that adds the sizes before it tests the cap.
unionSizeBeforeCap(u, xx, yy) ==
    LET fx == find_root(u, xx)
        fy == find_root(fx.uf, yy)
        x  == fx.root
        y  == fy.root
        v  == fy.uf
    IN  IF x = y THEN v
        ELSE IF CapExceeded(v, x, y)
        THEN [v EXCEPT !.component_size[x] = @ + v.component_size[y]]
        ELSE IF v.ranks[x] < v.ranks[y]
             THEN [v EXCEPT !.component_size[y] = @ + v.component_size[x],
                            !.parents[x] = y]
             ELSE [v EXCEPT !.component_size[x] = @ + v.component_size[y],
                            !.parents[y] = x,
                            !.ranks[x] = IF v.ranks[x] = v.ranks[y] THEN @ + 1 ELSE @]

\* A faulty variant of union that counts one node for the absorbed component.
unionCountsOne(u, xx, yy) ==
    LET fx == find_root(u, xx)
        fy == find_root(fx.uf, yy)
        x  == fx.root
        y  == fy.root
        v  == fy.uf
    IN  IF x = y THEN v
        ELSE IF CapExceeded(v, x, y) THEN v
        ELSE IF v.ranks[x] < v.ranks[y]
             THEN [v EXCEPT !.component_size[y] = @ + 1,
                            !.parents[x] = y]
             ELSE [v EXCEPT !.component_size[x] = @ + 1,
                            !.parents[y] = x,
                            !.ranks[x] = IF v.ranks[x] = v.ranks[y] THEN @ + 1 ELSE @]

\* UnionFind.union(x, y)
union(u, xx, yy) ==
    LET fx == find_root(u, xx)
        fy == find_root(fx.uf, yy)
        x  == fx.root
        y  == fy.root
        v  == fy.uf
    IN  IF x = y THEN v
        ELSE IF CapExceeded(v, x, y) THEN v
        ELSE IF v.ranks[x] < v.ranks[y]
             THEN [v EXCEPT !.component_size[y] = @ + v.component_size[x],
                            !.parents[x] = y]
             ELSE [v EXCEPT !.component_size[x] = @ + v.component_size[y],
                            !.parents[y] = x,
                            !.ranks[x] = IF v.ranks[x] = v.ranks[y] THEN @ + 1 ELSE @]

\* union(xx, yy) passes both early returns and merges the two components.
UnionAccepted(u, xx, yy) ==
    LET fx == find_root(u, xx)
        fy == find_root(fx.uf, yy)
    IN  fx.root # fy.root /\ ~CapExceeded(fy.uf, fx.root, fy.root)

\* The dense index of external id x: its position in the list nodes.
DenseIndex(u, x) == CHOOSE i \in DOMAIN u.nodes : u.nodes[i] = x

\* The classes after the classes of i and j have become one.
MergeClasses(classes, i, j) ==
    [k \in DOMAIN classes |-> IF classes[k] = classes[j] THEN classes[i] ELSE classes[k]]

\* The loop of validate over self.nodes[k ..]: find_root of every node, which
\* compresses paths, collecting the members of every root in union_set.
RECURSIVE ValidateLoop(_, _, _)
ValidateLoop(u, k, union_set) ==
    IF k \notin DOMAIN u.nodes
    THEN [uf |-> u, union_set |-> union_set]
    ELSE LET f    == find_root(u, u.nodes[k])
             old  == IF f.root \in DOMAIN union_set THEN union_set[f.root] ELSE <<>>
             rest == [r \in DOMAIN union_set \ {f.root} |-> union_set[r]]
         IN  ValidateLoop(f.uf, k + 1,
                          (f.root :> Append(old, u.nodes[k])) @@ rest)

\* UnionFind.validate(): "ok", or the exception the assert statement raises
\* (comparing an int with None is a TypeError).
validate(u) ==
    LET v == ValidateLoop(u, 0, <<>>) IN
    [ uf     |-> v.uf,
      result |-> IF u.max_num_per_set = None /\ DOMAIN v.union_set # {}
                 THEN "TypeError"
                 ELSE IF \E key \in DOMAIN v.union_set :
                            Len(v.union_set[key]) > u.max_num_per_set
                      THEN "AssertionError"
                      ELSE "ok" ]

\* Root index of dense index i, without compressing (for stating properties).
RECURSIVE RootOf(_, _)
RootOf(u, i) == IF u.parents[i] = i THEN i ELSE RootOf(u, u.parents[i])

\* The dense indices whose root is r.
Component(u, r) == {i \in DOMAIN u.parents : RootOf(u, i) = r}

Roots(u) == {i \in DOMAIN u.parents : u.parents[i] = i}

(***************************************************************************)
(* Python values: dicts, strings, int() and str()                          *)
(***************************************************************************)

\* A dict is the sequence of its items [key, val] in insertion order.
DictKeys(d) == [i \in 1 .. Len(d) |-> d[i].key]

DictHas(d, k) == \E i \in 1 .. Len(d) : d[i].key = k

DictGet(d, k) == d[CHOOSE i \in 1 .. Len(d) : d[i].key = k].val

\* d[k] = v: an existing key keeps its position, a new key goes last.
DictSet(d, k, v) ==
    IF DictHas(d, k)
    THEN [i \in 1 .. Len(d) |-> IF d[i].key = k THEN [key |-> k, val |-> v] ELSE d[i]]
    ELSE Append(d, [key |-> k, val |-> v])

\* d.pop(k)
DictPop(d, k) == SelectSeq(d, LAMBDA it : it.key # k)

\* A string is the sequence of its characters.
Digits == <<"0", "1", "2", "3", "4", "5", "6", "7", "8", "9">>

DigitValue(c) == (CHOOSE i \in 1 .. 10 : Digits[i] = c) - 1

IsDigit(c) == \E i \in 1 .. 10 : Digits[i] = c

\* A faulty variant of NatToStr that writes the last digit only.
NatToStrLastDigit(n) == <<Digits[(n % 10) + 1]>>

\* str(n) of a non-negative int, as f'{n}' formats it.
RECURSIVE NatToStr(_)
NatToStr(n) ==
    IF n < 10 THEN <<Digits[n + 1]>>
    ELSE Append(NatToStr(n \div 10), Digits[(n % 10) + 1])

\* str(n) of an int.
IntToStr(n) == IF n < 0 THEN <<"-">> \o NatToStr(0 - n) ELSE NatToStr(n)

\* int(tok) succeeds on the tokens of a track file: an optional sign and one
\* or more digits (the file holds no other character that int() accepts).
IsIntToken(tok) ==
    LET body == IF Len(tok) > 0 /\ tok[1] = "-" THEN Tail(tok) ELSE tok IN
    /\ Len(body) > 0
    /\ \A i \in 1 .. Len(body) : IsDigit(body[i])

RECURSIVE StrToNat(_)
StrToNat(ds) ==
    IF Len(ds) = 0 THEN 0
    ELSE 10 * StrToNat(SubSeq(ds, 1, Len(ds) - 1)) + DigitValue(ds[Len(ds)])

\* int(tok) of a token that IsIntToken accepts.
ParseInt(tok) == IF tok[1] = "-" THEN 0 - StrToNat(Tail(tok)) ELSE StrToNat(tok)

\* f.readline() at offset pos (1-based): the characters up to and including
\* the next newline, or up to the end of the file; "" at the end of the file.
ReadLine(content, pos) ==
    IF \A i \in pos .. Len(content) : content[i] # "\n"
    THEN SubSeq(content, pos, Len(content))
    ELSE SubSeq(content, pos,
                CHOOSE i \in pos .. Len(content) :
                    /\ content[i] = "\n"
                    /\ \A j \in pos .. i - 1 : content[j] # "\n")

\* s.rstrip('\n')
RECURSIVE RStripNewline(_)
RStripNewline(s) ==
    IF Len(s) > 0 /\ s[Len(s)] = "\n"
    THEN RStripNewline(SubSeq(s, 1, Len(s) - 1))
    ELSE s

\* s.split(' '): the pieces between single spaces, empty pieces included, so
\* that the result is never the empty list.
RECURSIVE SplitSpace(_)
SplitSpace(s) ==
    IF \A i \in 1 .. Len(s) : s[i] # " " THEN <<s>>
    ELSE LET k == CHOOSE i \in 1 .. Len(s) :
                      /\ s[i] = " "
                      /\ \A j \in 1 .. i - 1 : s[j] # " "
         IN  <<SubSeq(s, 1, k - 1)>> \o SplitSpace(SubSeq(s, k + 1, Len(s)))

(***************************************************************************)
(* TrackBuilder (dbarf/geometry/track.py)                                  *)
(***************************************************************************)

\* Largest number of track elements given to build.
MaxElems == 3
\* Largest number of track element pairs given to build.
MaxPairs == 2

\* The observations of the model: three images, two observations in image
\* 0, ids and indices of one and of two decimal digits.
TrackElements ==
    { [image_id |-> 0,  point2D_idx |-> 3],
      [image_id |-> 0,  point2D_idx |-> 10],
      [image_id |-> 7,  point2D_idx |-> 3],
      [image_id |-> 12, point2D_idx |-> 10] }

\* class TrackElement
TrackElement(image_id, point2D_idx) ==
    [image_id |-> image_id, point2D_idx |-> point2D_idx]

\* Values of min_track_length and max_track_length given to the constructor
\* (any combination, min_track_length > max_track_length included).
TrackLengths == 2 .. 3

\* TrackBuilder.__init__(min_track_length, max_track_length)
TrackBuilder(min_track_length, max_track_length) ==
    [ min_track_length  |-> min_track_length,
      max_track_length  |-> max_track_length,
      consistent_tracks |-> <<>> ]

\* A faulty variant of MeanTrackLengthRaises whose division yields NaN.
MeanTrackLengthNaN(t) == FALSE

\* The division of the property mean_track_length raises ZeroDivisionError
\* when there is no track.
MeanTrackLengthRaises(t) == Len(t.consistent_tracks) = 0

\* build's first loop: finder.union over the pairs, in order.
RECURSIVE UnionAll(_, _, _)
UnionAll(finder, pairs, k) ==
    IF k > Len(pairs) THEN finder
    ELSE UnionAll(union(finder, pairs[k][1], pairs[k][2]), pairs, k + 1)

\* A faulty variant of GroupByRoot that starts the track of a root anew with
\* every element.
RECURSIVE GroupByRootOverwrite(_, _, _, _)
GroupByRootOverwrite(finder, track_elements, track_id, tracks) ==
    IF track_id >= Len(track_elements) THEN tracks
    ELSE LET f == find_root(finder, track_id)
         IN  GroupByRootOverwrite(f.uf, track_elements, track_id + 1,
                                  DictSet(tracks, f.root, <<track_elements[track_id + 1]>>))

\* build's second loop: every element is appended to the track of its root.
RECURSIVE GroupByRoot(_, _, _, _)
GroupByRoot(finder, track_elements, track_id, tracks) ==
    IF track_id >= Len(track_elements) THEN tracks
    ELSE LET f   == find_root(finder, track_id)
             cur == IF DictHas(tracks, f.root) THEN DictGet(tracks, f.root) ELSE <<>>
         IN  GroupByRoot(f.uf, track_elements, track_id + 1,
                         DictSet(tracks, f.root,
                                 Append(cur, track_elements[track_id + 1])))

\* TrackBuilder.build(track_elements, track_element_pairs): the builder after
\* the call and "ok" or the exception that ended it. track_elements is a
\* sequence, so that Python's track_elements[i] is track_elements[i + 1].
build(t, track_elements, track_element_pairs) ==
    LET n      == Len(track_elements)
        finder == UnionAll(UnionFind(n, t.max_track_length), track_element_pairs, 1)
        v      == validate(finder)
        done   == [t EXCEPT !.consistent_tracks =
                       GroupByRoot(v.uf, track_elements, 0, t.consistent_tracks)]
    IN  IF \E k \in 1 .. Len(track_element_pairs) :
               \E c \in 1 .. 2 : track_element_pairs[k][c] \notin 0 .. n - 1
        THEN [tb |-> t, result |-> "KeyError"]
        ELSE IF v.result # "ok"
        THEN [tb |-> t, result |-> v.result]
        ELSE IF MeanTrackLengthRaises(done)
        THEN [tb |-> done, result |-> "ZeroDivisionError"]
        ELSE [tb |-> done, result |-> "ok"]

\* A faulty variant of FirstPerImage that keeps every element.
KeepEveryElement(candidate_tracks, i, image_ids, kept) ==
    SelectSeq(candidate_tracks, LAMBDA e : TRUE)

\* A faulty variant of FirstPerImage that keeps the last element of every
\* image instead of the first.
KeepLastPerImage(candidate_tracks, i, image_ids, kept) ==
    LET keep == {a \in 1 .. Len(candidate_tracks) :
                    \A b \in a + 1 .. Len(candidate_tracks) :
                        candidate_tracks[b].image_id # candidate_tracks[a].image_id}
    IN  [k \in 1 .. Cardinality(keep) |->
            candidate_tracks[CHOOSE a \in keep :
                                 Cardinality({b \in keep : b <= a}) = k]]

\* A faulty variant of FirstPerImage whose loop stops one element early.
RECURSIVE FirstPerImageButLast(_, _, _, _)
FirstPerImageButLast(candidate_tracks, i, image_ids, kept) ==
    IF i > Len(candidate_tracks) - 1 THEN kept
    ELSE IF candidate_tracks[i].image_id \in image_ids
    THEN FirstPerImageButLast(candidate_tracks, i + 1, image_ids, kept)
    ELSE FirstPerImageButLast(candidate_tracks, i + 1,
                              image_ids \cup {candidate_tracks[i].image_id},
                              Append(kept, candidate_tracks[i]))

\* The inner loop of filter over candidate_tracks[i ..]: an element is kept
\* unless an earlier element of the track has its image_id.
RECURSIVE FirstPerImage(_, _, _, _)
FirstPerImage(candidate_tracks, i, image_ids, kept) ==
    IF i > Len(candidate_tracks) THEN kept
    ELSE IF candidate_tracks[i].image_id \in image_ids
    THEN FirstPerImage(candidate_tracks, i + 1, image_ids, kept)
    ELSE FirstPerImage(candidate_tracks, i + 1,
                       image_ids \cup {candidate_tracks[i].image_id},
                       Append(kept, candidate_tracks[i]))

\* A faulty variant of TooShort that lets a track one element short pass.
TooShortOffByOne(t, track) == Len(track) < t.min_track_length - 1

\* filter's first test: the track is shorter than min_track_length.
TooShort(t, track) == Len(track) < t.min_track_length

\* The outer loop of filter over the root ids that the dict held at the start.
RECURSIVE FilterLoop(_, _, _)
FilterLoop(t, track_root_ids, k) ==
    IF k > Len(track_root_ids) THEN t
    ELSE LET root_id    == track_root_ids[k]
             candidate  == DictGet(t.consistent_tracks, root_id)
             consistent == FirstPerImage(candidate, 1, {}, <<>>)
             popped     == DictPop(t.consistent_tracks, root_id)
         IN  IF TooShort(t, candidate)
             THEN FilterLoop([t EXCEPT !.consistent_tracks = popped],
                             track_root_ids, k + 1)
             ELSE IF Len(candidate) # Len(consistent)
             THEN FilterLoop(
                      [t EXCEPT !.consistent_tracks =
                           IF Len(consistent) >= t.min_track_length
                           THEN DictSet(popped, root_id, consistent)
                           ELSE popped],
                      track_root_ids, k + 1)
             ELSE FilterLoop(t, track_root_ids, k + 1)

\* TrackBuilder.filter(): the builder after the call and "ok" or the
\* exception of the mean_track_length printed last.
filter(t) ==
    LET done == FilterLoop(t, DictKeys(t.consistent_tracks), 1) IN
    [ tb     |-> done,
      result |-> IF MeanTrackLengthRaises(done) THEN "ZeroDivisionError" ELSE "ok" ]


\* The data line of one track: every element as 'image_id point2D_idx '.
RECURSIVE WriteElements(_, _)
WriteElements(track, i) ==
    IF i > Len(track) THEN <<>>
    ELSE IntToStr(track[i].image_id) \o <<" ">> \o
         IntToStr(track[i].point2D_idx) \o <<" ">> \o WriteElements(track, i + 1)

\* The loop of write_to_file over the keys, in dict order: a header line
\* 'key count' and a data line for every track.
RECURSIVE WriteTracks(_, _)
WriteTracks(tracks, k) ==
    IF k > Len(tracks) THEN <<>>
    ELSE IntToStr(tracks[k].key) \o <<" ">> \o IntToStr(Len(tracks[k].val)) \o <<"\n">>
         \o WriteElements(tracks[k].val, 1) \o <<"\n">>
         \o WriteTracks(tracks, k + 1)

\* TrackBuilder.write_to_file(filename): the characters of the file.
write_to_file(t) == WriteTracks(t.consistent_tracks, 1)

\* The image_ids argument of read_from_file when it is None.
NoImageIds == [given |-> FALSE, ids |-> {}]

\* A faulty variant of NotAllowed that skips no element.
NotAllowedNever(image_ids, image_id) == FALSE

\* image_ids is not None and image_id not in image_ids
NotAllowed(image_ids, image_id) == image_ids.given /\ image_id \notin image_ids.ids

\* The inner loop of read_from_file over i in range(num_track_elements): the
\* elements appended, and "ok" or the exception of line[...] or int(...).
\* line is a sequence, so that Python's line[j] is line[j + 1].
RECURSIVE ReadElements(_, _, _, _, _)
ReadElements(line, i, num_track_elements, image_ids, acc) ==
    IF i >= num_track_elements THEN [val |-> acc, result |-> "ok"]
    ELSE IF 2 * i >= Len(line) THEN [val |-> acc, result |-> "IndexError"]
    ELSE IF ~IsIntToken(line[2 * i + 1]) THEN [val |-> acc, result |-> "ValueError"]
    ELSE IF 2 * i + 1 >= Len(line) THEN [val |-> acc, result |-> "IndexError"]
    ELSE IF ~IsIntToken(line[2 * i + 2]) THEN [val |-> acc, result |-> "ValueError"]
    ELSE LET image_id    == ParseInt(line[2 * i + 1])
             point2D_idx == ParseInt(line[2 * i + 2])
         IN  IF NotAllowed(image_ids, image_id)
             THEN ReadElements(line, i + 1, num_track_elements, image_ids, acc)
             ELSE ReadElements(line, i + 1, num_track_elements, image_ids,
                               Append(acc, TrackElement(image_id, point2D_idx)))

\* f.readline().rstrip('\n').split(' ') at offset pos.
NextLine(content, pos) == SplitSpace(RStripNewline(ReadLine(content, pos)))

\* The while loop of read_from_file, with the header line at offset pos.
RECURSIVE ReadLoop(_, _, _, _)
ReadLoop(content, pos, tracks, image_ids) ==
    LET line     == NextLine(content, pos)
        data_pos == pos + Len(ReadLine(content, pos))
        data     == NextLine(content, data_pos)
        next_pos == data_pos + Len(ReadLine(content, data_pos))
    IN  IF ~(Len(line) > 1) THEN [tracks |-> tracks, result |-> "ok"]
        ELSE IF ~IsIntToken(line[1]) \/ ~IsIntToken(line[2])
        THEN [tracks |-> tracks, result |-> "ValueError"]
        ELSE LET track_id == ParseInt(line[1])
                 els      == ReadElements(data, 0, ParseInt(line[2]), image_ids, <<>>)
                 loaded   == DictSet(tracks, track_id, els.val)
             IN  IF els.result # "ok"
                 THEN [tracks |-> loaded, result |-> els.result]
                 ELSE ReadLoop(content, next_pos, loaded, image_ids)

\* TrackBuilder.read_from_file(filename, image_ids): the builder after the
\* call and "ok" or the exception that ended it.
read_from_file(t, content, image_ids) ==
    LET r == ReadLoop(content, 1, t.consistent_tracks, image_ids) IN
    [ tb     |-> [t EXCEPT !.consistent_tracks = r.tracks],
      result |-> r.result ]


(***************************************************************************)
(* load_track_elements (dbarf/geometry/track.py)                           *)
(***************************************************************************)

\* str(image_id) + '_' + str(point2d_idx)
TrackKey(image_id, point2d_idx) ==
    IntToStr(image_id) \o <<"_">> \o IntToStr(point2d_idx)

\* The if/else on one key of a match: st holds track_key_to_id,
\* track_elements and track_element_pairs; the result adds track_id, the
\* index the pair gets for this key.
AssignTrackId(st, image_id, point2d_idx) ==
    LET track_key == TrackKey(image_id, point2d_idx) IN
    IF DictHas(st.track_key_to_id, track_key)
    THEN [st EXCEPT !.track_id = DictGet(st.track_key_to_id, track_key)]
    ELSE [st EXCEPT !.track_id = Len(st.track_key_to_id),
                    !.track_key_to_id =
                        DictSet(st.track_key_to_id, track_key,
                                Len(st.track_key_to_id) + 1),
                    !.track_elements =
                        Append(st.track_elements, TrackElement(image_id, point2d_idx))]

\* matches == None: a value that no list of point indices equals.
NoMatches == <<<<None, None>>>>

\* The inner loop over matches[k ..] of a row of images image_id1, image_id2.
RECURSIVE LoadMatches(_, _, _, _, _)
LoadMatches(st, image_id1, image_id2, matches, k) ==
    IF k > Len(matches) THEN st
    ELSE LET st1 == AssignTrackId(st, image_id1, matches[k][1])
             st2 == AssignTrackId(st1, image_id2, matches[k][2])
         IN  LoadMatches([st2 EXCEPT !.track_element_pairs =
                              Append(st2.track_element_pairs,
                                     <<st1.track_id, st2.track_id>>)],
                         image_id1, image_id2, matches, k + 1)

\* The loop over rows[r ..]. A row holds the two image ids that
\* pair_id_to_image_ids decodes from its pair_id, and matches, None or the
\* list of the matched point indices.
RECURSIVE LoadRows(_, _, _)
LoadRows(st, rows, r) ==
    IF r > Len(rows) THEN st
    ELSE IF rows[r].matches = NoMatches
         THEN LoadRows(st, rows, r + 1)
         ELSE LoadRows(LoadMatches(st, rows[r].image_id1 - 1, rows[r].image_id2 - 1,
                                   rows[r].matches, 1),
                       rows, r + 1)

\* load_track_elements(database_path) on a database with these rows.
load_track_elements(rows) ==
    LET st == LoadRows([track_key_to_id |-> <<>>, track_elements |-> <<>>,
                        track_element_pairs |-> <<>>, track_id |-> None], rows, 1)
    IN  [track_elements |-> st.track_elements,
         track_element_pairs |-> st.track_element_pairs]

(***************************************************************************)
(* networkx.Graph, as the code uses it                                     *)
(***************************************************************************)

\* A Graph is its adjacency: for every node, in insertion order, the list of
\* its neighbours with the weight of the edge.
EmptyGraph == [node_order |-> <<>>, adj |-> <<>>]

HasNode(g, n) == n \in DOMAIN g.adj

HasEdge(g, u, v) == HasNode(g, u) /\ \E i \in 1 .. Len(g.adj[u]) : g.adj[u][i].nbr = v

\* G.add_node(n), which add_edge performs for both ends.
AddNode(g, n) ==
    IF HasNode(g, n) THEN g
    ELSE [node_order |-> Append(g.node_order, n), adj |-> (n :> <<>>) @@ g.adj]

\* adj[u][v] = {'weight': w}: a known neighbour keeps its position.
SetNeighbour(g, u, v, w) ==
    [g EXCEPT !.adj[u] =
        IF \E i \in 1 .. Len(@) : @[i].nbr = v
        THEN [i \in 1 .. Len(@) |-> IF @[i].nbr = v THEN [nbr |-> v, weight |-> w] ELSE @[i]]
        ELSE Append(@, [nbr |-> v, weight |-> w])]

\* G.add_edge(u, v, weight=w)
add_edge(g, u, v, w) ==
    SetNeighbour(SetNeighbour(AddNode(AddNode(g, u), v), u, v, w), v, u, w)

\* list(G.neighbors(n)) of a node of the graph (for any other node networkx
\* raises NetworkXError).
neighbors(g, n) == [i \in 1 .. Len(g.adj[n]) |-> g.adj[n][i].nbr]

\* G[u][v]['weight']
EdgeWeight(g, u, v) ==
    g.adj[u][CHOOSE i \in 1 .. Len(g.adj[u]) : g.adj[u][i].nbr = v].weight

\* The edges of a graph as pairs <<a, b>> with a < b.
EdgeSet(g) ==
    {<<u, v>> \in (DOMAIN g.adj) \X (DOMAIN g.adj) : u < v /\ HasEdge(g, u, v)}

(***************************************************************************)
(* PoseInitializer._load_view_graph (dbarf/pose_util.py)                   *)
(***************************************************************************)

\* The image ids of a scene.
Images == 0 .. 3

thresh_rot_low == 5
thresh_rot_high == 15

\* Rotation errors around the two thresholds, in degrees.
RotErrors == {4, 5, 15, 16}

\* A faulty variant of IsInlier with a non-strict comparison.
IsInlierNonStrict(rot_deg) == rot_deg <= thresh_rot_low

\* inliers = rel_pose_errors['rot_deg'] < self.thresh_rot_low
IsInlier(rot_deg) == rot_deg < thresh_rot_low

\* outliers = rel_pose_errors['rot_deg'] > self.thresh_rot_high
IsOutlier(rot_deg) == rot_deg > thresh_rot_high

\* edge_inliers of one edge: 0.5, overwritten by 1.0 where inliers holds and
\* then by 0.0 where outliers holds.
EdgeInlier(rot_deg) ==
    LET initial == "0.5"
        step1   == IF IsInlier(rot_deg) THEN "1.0" ELSE initial
    IN  IF IsOutlier(rot_deg) THEN "0.0" ELSE step1

\* to_keep = edge_index[0] < edge_index[1], applied to edge_index and to
\* relative_poses alike.
ToKeep(edges) == SelectSeq(edges, LAMBDA e : e.src < e.dst)

\* A faulty variant of GraphWeight that stores the inverse-count key.
GraphWeightInverse(num_matches) == 100000 \div num_matches

\* weight=int(image_pair_to_matches_num[image_pair])
GraphWeight(num_matches) == num_matches

\* The loop of _load_view_graph over all_edge_indices[i ..].
RECURSIVE LoadEdges(_, _, _, _)
LoadEdges(all_edge_indices, i, matches_num, vg) ==
    IF i > Len(all_edge_indices) THEN vg
    ELSE LET edge       == all_edge_indices[i]
             image_pair == <<edge.src, edge.dst>>
         IN  IF image_pair \notin DOMAIN matches_num
             THEN LoadEdges(all_edge_indices, i + 1, matches_num, vg)
             ELSE LoadEdges(all_edge_indices, i + 1, matches_num,
                    [ two_view_geometries |->
                          DictSet(vg.two_view_geometries, image_pair,
                                  [ rel_pose    |-> edge.rel_pose,
                                    num_matches |-> matches_num[image_pair],
                                    inlier_mask |-> EdgeInlier(edge.rot_deg) ]),
                      graph |-> add_edge(vg.graph, image_pair[1], image_pair[2],
                                         GraphWeight(matches_num[image_pair])) ])

\* _load_view_graph: the view_graph it returns.
load_view_graph(edges, matches_num) ==
    LoadEdges(ToKeep(edges), 1, matches_num,
              [two_view_geometries |-> <<>>, graph |-> EmptyGraph])

(***************************************************************************)
(* get_nearby_view_ids (dbarf/data_loaders/data_utils.py)                  *)
(***************************************************************************)

\* int((1.0 / weight) * 1e5): for every weight from 1 to 200000 the float
\* product truncates to the integer quotient 100000 div weight.
PriorityLevel(weight) == 100000 \div weight

\* A faulty variant of EntryLess that compares the priority levels only.
EntryLessKeyOnly(a, b) == a[1] < b[1]

\* Python's order on the queue entries, lists of ints of one length such as
\* [priority_level, j]: the first difference decides.
EntryLess(a, b) ==
    \E k \in 1 .. Len(a) : a[k] < b[k] /\ \A m \in 1 .. k - 1 : a[m] = b[m]

\* A faulty variant of QueueMin that returns the oldest entry.
QueueFirst(queue) == queue[1]

\* The entry that PriorityQueue.get() returns: the least one.
QueueMin(queue) ==
    queue[CHOOSE i \in 1 .. Len(queue) :
           /\ \A k \in 1 .. Len(queue) : ~EntryLess(queue[k], queue[i])
           /\ \A k \in 1 .. i - 1 : queue[k] # queue[i]]

\* The queue after get(): one occurrence of the least entry is gone.
QueueRest(queue) ==
    LET i == CHOOSE i \in 1 .. Len(queue) :
                 /\ \A k \in 1 .. Len(queue) : ~EntryLess(queue[k], queue[i])
                 /\ \A k \in 1 .. i - 1 : queue[k] # queue[i]
    IN  SubSeq(queue, 1, i - 1) \o SubSeq(queue, i + 1, Len(queue))

\* The first loop of get_nearby_view_ids over neighbors[k ..]: the neighbours
\* that node_id_to_idx knows are put on the queue.
RECURSIVE PutNeighbours(_, _, _, _, _, _)
PutNeighbours(graph, target_node_id, nbrs, k, n2i, queue) ==
    IF k > Len(nbrs) THEN queue
    ELSE LET j == nbrs[k] IN
         IF j \notin DOMAIN n2i
         THEN PutNeighbours(graph, target_node_id, nbrs, k + 1, n2i, queue)
         ELSE PutNeighbours(graph, target_node_id, nbrs, k + 1, n2i,
                  Append(queue, <<PriorityLevel(EdgeWeight(graph, target_node_id, j)), j>>))

\* A faulty variant of PopSelected that appends the node id unmapped.
RECURSIVE PopSelectedNodeIds(_, _, _, _, _)
PopSelectedNodeIds(queue, k, num_select, n2i, select_ids) ==
    IF Len(queue) > 0 /\ k < num_select
    THEN PopSelectedNodeIds(QueueRest(queue), k + 1, num_select, n2i,
                            Append(select_ids, QueueMin(queue)[2]))
    ELSE select_ids

\* The second loop: while not qu.empty() and k < num_select.
RECURSIVE PopSelected(_, _, _, _, _)
PopSelected(queue, k, num_select, n2i, select_ids) ==
    IF Len(queue) > 0 /\ k < num_select
    THEN PopSelected(QueueRest(queue), k + 1, num_select, n2i,
                     Append(select_ids, n2i[QueueMin(queue)[2]]))
    ELSE select_ids

\* get_nearby_view_ids(target_id, graph, idx_to_node_id, node_id_to_idx,
\* num_select): "ok" and the selected ids, or the exception raised.
get_nearby_view_ids(target_id, graph, i2n, n2i, num_select) ==
    IF target_id \notin DOMAIN i2n
    THEN [status |-> "KeyError", select_ids |-> <<>>]
    ELSE IF ~HasNode(graph, i2n[target_id])
    THEN [status |-> "NetworkXError", select_ids |-> <<>>]
    ELSE LET target_node_id == i2n[target_id]
             queue == PutNeighbours(graph, target_node_id,
                                 neighbors(graph, target_node_id), 1, n2i, <<>>)
         IN  [status |-> "ok", select_ids |-> PopSelected(queue, 0, num_select, n2i, <<>>)]

(***************************************************************************)
(* PoseInitializer.init_global_rotations_from_mst (dbarf/pose_util.py)     *)
(***************************************************************************)

\* 3 x 3 matrices: a tuple of rows.
Identity == <<<<1, 0, 0>>, <<0, 1, 0>>, <<0, 0, 1>>>>

\* A @ B
MatMul(A, B) ==
    [i \in 1 .. 3 |-> [j \in 1 .. 3 |->
        A[i][1] * B[1][j] + A[i][2] * B[2][j] + A[i][3] * B[3][j]]]

\* A.transpose(0, 1)
Transpose(A) == [i \in 1 .. 3 |-> [j \in 1 .. 3 |-> A[j][i]]]

\* Quarter turns about the three axes.
RotX == <<<<1, 0, 0>>, <<0, 0, -1>>, <<0, 1, 0>>>>
RotY == <<<<0, 0, 1>>, <<0, 1, 0>>, <<-1, 0, 0>>>>
RotZ == <<<<0, -1, 0>>, <<1, 0, 0>>, <<0, 0, 1>>>>

\* A faulty variant of InitialRotations that repeats the reference rotation.
InitialRotationsAllReference(num_rotations, ref_id, ref_rotation) ==
    [i \in 0 .. num_rotations - 1 |-> ref_rotation]

\* torch.eye(3).repeat(num_rotations, 1, 1) with the reference rotation
\* stored at ref_image_id.
InitialRotations(num_rotations, ref_id, ref_rotation) ==
    [i \in 0 .. num_rotations - 1 |-> IF i = ref_id THEN ref_rotation ELSE Identity]

\* The weighted graph of the first loop. Its weight 1.0 / float(num_matches)
\* is kept as num_matches: of two weights the one with the larger
\* num_matches is the smaller.
RECURSIVE WeightedGraph(_, _, _)
WeightedGraph(tvg, k, graph) ==
    IF k > Len(tvg) THEN graph
    ELSE WeightedGraph(tvg, k + 1,
                       add_edge(graph, tvg[k].key[1], tvg[k].key[2], tvg[k].val[2]))

\* A faulty variant of WeightAtMost that orders the edges by num_matches.
WeightAtMostByCount(n1, n2) == n1 <= n2

\* 1.0 / n1 <= 1.0 / n2
WeightAtMost(n1, n2) == n1 >= n2

\* The orders in which Kruskal's algorithm may take the edges: by weight,
\* edges of equal weight in any order.
SortedEdgeOrders(graph) ==
    LET edges == EdgeSet(graph)
        n     == Cardinality(edges)
    IN  {order \in [1 .. n -> edges] :
            /\ \A a, b \in 1 .. n : a # b => order[a] # order[b]
            /\ \A a \in 1 .. n - 1 :
                  WeightAtMost(EdgeWeight(graph, order[a][1], order[a][2]),
                               EdgeWeight(graph, order[a + 1][1], order[a + 1][2]))}

\* A faulty variant of Kruskal that lets every edge join the tree.
RECURSIVE KruskalEveryEdge(_, _, _, _, _)
KruskalEveryEdge(graph, order, k, subtree, tree) ==
    IF k > Len(order) THEN tree
    ELSE KruskalEveryEdge(graph, order, k + 1, subtree,
                          add_edge(tree, order[k][1], order[k][2],
                                   EdgeWeight(graph, order[k][1], order[k][2])))

\* Kruskal's loop over order[k ..]: an edge joins the tree when its ends are
\* in different subtrees; subtree maps every node to its subtree's name.
RECURSIVE Kruskal(_, _, _, _, _)
Kruskal(graph, order, k, subtree, tree) ==
    IF k > Len(order) THEN tree
    ELSE LET u == order[k][1]
             v == order[k][2]
         IN  IF subtree[u] = subtree[v]
             THEN Kruskal(graph, order, k + 1, subtree, tree)
             ELSE Kruskal(graph, order, k + 1,
                          [n \in DOMAIN subtree |->
                              IF subtree[n] = subtree[v] THEN subtree[u] ELSE subtree[n]],
                          add_edge(tree, u, v, EdgeWeight(graph, u, v)))

\* networkx.minimum_spanning_tree(graph) for one order of the edges: a graph
\* with the nodes of graph and the edges Kruskal's algorithm chooses.
minimum_spanning_tree(graph, order) ==
    Kruskal(graph, order, 1, [n \in DOMAIN graph.adj |-> n],
            [node_order |-> graph.node_order, adj |-> [n \in DOMAIN graph.adj |-> <<>>]])

\* A faulty variant of compute_rotation that never transposes.
compute_rotationNoTranspose(tvg, rots, i, j) ==
    LET R_ij == IF i < j
                THEN DictGet(tvg, <<i, j>>)[1]
                ELSE DictGet(tvg, <<j, i>>)[1]
    IN  [rots EXCEPT ![j] = MatMul(R_ij, rots[i])]

\* A faulty variant of compute_rotation that multiplies from the right.
compute_rotationRightMultiply(tvg, rots, i, j) ==
    LET R_ij == IF i < j
                THEN DictGet(tvg, <<i, j>>)[1]
                ELSE Transpose(DictGet(tvg, <<j, i>>)[1])
    IN  [rots EXCEPT ![j] = MatMul(rots[i], R_ij)]

\* compute_rotation(i, j): init_global_rotations after the assignment.
compute_rotation(tvg, rots, i, j) ==
    LET R_ij == IF i < j
                THEN DictGet(tvg, <<i, j>>)[1]
                ELSE Transpose(DictGet(tvg, <<j, i>>)[1])
    IN  [rots EXCEPT ![j] = MatMul(R_ij, rots[i])]

\* A faulty variant of AddEdgesLoop that also queues the visited neighbours.
RECURSIVE AddEdgesLoopVisitedToo(_, _, _, _, _, _)
AddEdgesLoopVisitedToo(tree, vis, image_id, nbrs, k, queue) ==
    IF k > Len(nbrs) THEN queue
    ELSE AddEdgesLoopVisitedToo(tree, vis, image_id, nbrs, k + 1,
             Append(queue, <<PriorityLevel(EdgeWeight(tree, image_id, nbrs[k])),
                             image_id, nbrs[k]>>))

\* The loop of add_edges_to_heap(image_id) over neighbors[k ..].
RECURSIVE AddEdgesLoop(_, _, _, _, _, _)
AddEdgesLoop(tree, vis, image_id, nbrs, k, queue) ==
    IF k > Len(nbrs) THEN queue
    ELSE LET j == nbrs[k] IN
         IF vis[j]
         THEN AddEdgesLoop(tree, vis, image_id, nbrs, k + 1, queue)
         ELSE AddEdgesLoop(tree, vis, image_id, nbrs, k + 1,
                  Append(queue, <<PriorityLevel(EdgeWeight(tree, image_id, j)), image_id, j>>))

\* add_edges_to_heap(image_id) for a node of the tree: the queue afterwards.
add_edges_to_heap(tree, vis, image_id, queue) ==
    AddEdgesLoop(tree, vis, image_id, neighbors(tree, image_id), 1, queue)

(***************************************************************************)
(* The state of each component before it is used, and the specifications   *)
(***************************************************************************)

NoCall == [op |-> "none", rejected |-> FALSE, compressed |-> FALSE]

NoLog == [assigned |-> <<>>, queued |-> <<>>]

NewUF ==
    /\ uf = UnionFind(0, None)
    /\ validate_result = "none"
    /\ uf_call = NoCall
    /\ merged = <<>>
    /\ linked = <<>>
    /\ dense = [uf |-> UnionFind(0, None), validate_result |-> "none"]

NewTB ==
    /\ tb = TrackBuilder(3, 40)
    /\ tb_pc = "new"
    /\ tb_result = "none"
    /\ tracks_before = <<>>
    /\ filter_calls = 0
    /\ track_file = [exists |-> FALSE, data |-> <<>>]
    /\ reader = TrackBuilder(3, 40)
    /\ reader_result = "none"
    /\ reader_image_ids = NoImageIds
    /\ build_input = [track_elements |-> <<>>, track_element_pairs |-> <<>>]

NewVG ==
    /\ pose_edges = <<>>
    /\ image_pair_to_matches_num = <<>>
    /\ view_graph = [two_view_geometries |-> <<>>, graph |-> EmptyGraph]
    /\ vg_pc = "init"

NewSel ==
    /\ idx_to_node_id = <<>>
    /\ node_id_to_idx = <<>>
    /\ nearby = [called |-> FALSE, target_id |-> 0, num_select |-> 0,
                 status |-> "none", select_ids |-> <<>>]

NewMst ==
    /\ two_view_geometries = <<>>
    /\ ref_image_id = 0
    /\ ref_image_rotation = Identity
    /\ mst_pc = "start"
    /\ mst = EmptyGraph
    /\ visited = <<>>
    /\ qu = <<>>
    /\ rotations = <<>>
    /\ init_global_rotations = <<>>
    /\ mst_log = NoLog

NewLoad ==
    /\ match_rows = <<>>
    /\ load_pc = "start"
    /\ load_result = [track_elements |-> <<>>, track_element_pairs |-> <<>>]

\* SpecUF: a UnionFind of UFSize nodes, with or without a cap and with or
\* without external ids, under any sequence of its methods.
InitUF ==
    /\ \E cap \in (1 .. UFSize) \cup {None} :
       \E ext \in BOOLEAN :
          uf = IF ext
               THEN init_with_nodes(UnionFind(UFSize, cap),
                                    [i \in 0 .. UFSize - 1 |-> ExternalId(i)])
               ELSE UnionFind(UFSize, cap)
    /\ validate_result = "none"
    /\ uf_call = NoCall
    /\ merged = [i \in 0 .. UFSize - 1 |-> i]
    /\ linked = [i \in 0 .. UFSize - 1 |-> i]
    /\ dense = [uf |-> UnionFind(UFSize, uf.max_num_per_set), validate_result |-> "none"]
    /\ NewTB
    /\ NewVG
    /\ NewSel
    /\ NewMst
    /\ NewLoad

Union(x, y) ==
    /\ uf' = union(uf, x, y)
    /\ uf_call' = [op |-> "union", rejected |-> ~UnionAccepted(uf, x, y),
                   compressed |-> union(uf, x, y).parents # uf.parents]
    /\ merged' = IF UnionAccepted(uf, x, y)
                 THEN MergeClasses(merged, DenseIndex(uf, x), DenseIndex(uf, y))
                 ELSE merged
    /\ linked' = MergeClasses(linked, DenseIndex(uf, x), DenseIndex(uf, y))
    /\ dense' = [dense EXCEPT !.uf = union(dense.uf, DenseIndex(uf, x), DenseIndex(uf, y))]
    /\ UNCHANGED <<validate_result, tbVars, vgVars, selVars, mstVars, loadVars>>

FindRoot(x) ==
    /\ uf' = find_root(uf, x).uf
    /\ uf_call' = [op |-> "find_root", rejected |-> FALSE,
                   compressed |-> find_root(uf, x).uf.parents # uf.parents]
    /\ dense' = [dense EXCEPT !.uf = find_root(dense.uf, DenseIndex(uf, x)).uf]
    /\ UNCHANGED <<validate_result, merged, linked, tbVars, vgVars, selVars, mstVars,
                   loadVars>>

Validate ==
    /\ uf' = validate(uf).uf
    /\ validate_result' = validate(uf).result
    /\ uf_call' = [op |-> "validate", rejected |-> FALSE,
                   compressed |-> validate(uf).uf.parents # uf.parents]
    /\ dense' = [uf |-> validate(dense.uf).uf, validate_result |-> validate(dense.uf).result]
    /\ UNCHANGED <<merged, linked, tbVars, vgVars, selVars, mstVars, loadVars>>

NextUF ==
    \/ \E x, y \in DOMAIN uf.node_mapper : Union(x, y)
    \/ \E x \in DOMAIN uf.node_mapper : FindRoot(x)
    \/ Validate

SpecUF == InitUF /\ [][NextUF]_vars

\* SpecTrack: the track pipeline. A TrackBuilder tb builds tracks from the
\* matches, filters them (any number of times) and writes them to the track
\* file; a second, fresh TrackBuilder reader then reads the file, with or
\* without a list of image ids, and filters what it read. A call on tb that
\* raises ends the pipeline.
\* The lists of distinct track elements build is given (load_track_elements
\* appends an element only when its key is new).
ElementLists ==
    UNION {{e \in [1 .. n -> TrackElements] :
               \A i, j \in 1 .. n : i # j => e[i] # e[j]} : n \in 0 .. MaxElems}

\* The lists of pairs of indices into a list of n track elements: a match
\* relates observations in two images, so the two indices of a pair differ.
PairLists(n) ==
    UNION {[1 .. m -> {p \in (0 .. n - 1) \X (0 .. n - 1) : p[1] # p[2]}] :
               m \in 0 .. MaxPairs}

InitTrack ==
    /\ \E min_track_length, max_track_length \in TrackLengths :
          tb = TrackBuilder(min_track_length, max_track_length)
    /\ reader = TrackBuilder(3, 40)
    /\ tb_pc = "new"
    /\ tb_result = "none"
    /\ tracks_before = <<>>
    /\ filter_calls = 0
    /\ track_file = [exists |-> FALSE, data |-> <<>>]
    /\ reader_result = "none"
    /\ reader_image_ids = NoImageIds
    /\ build_input = [track_elements |-> <<>>, track_element_pairs |-> <<>>]
    /\ NewUF
    /\ NewVG
    /\ NewSel
    /\ NewMst
    /\ NewLoad

Build(track_elements, track_element_pairs) ==
    /\ tb_pc = "new"
    /\ \E r \in {build(tb, track_elements, track_element_pairs)} :
          /\ tb' = r.tb
          /\ tb_result' = r.result
          /\ tb_pc' = IF r.result = "ok" THEN "built" ELSE "aborted"
    /\ tracks_before' = tb.consistent_tracks
    /\ UNCHANGED filter_calls
    /\ UNCHANGED <<track_file, reader, reader_result, reader_image_ids, build_input,
                   ufVars, vgVars, selVars, mstVars, loadVars>>

Filter ==
    /\ tb_pc \in {"built", "filtered", "written"}
    /\ \E r \in {filter(tb)} :
          /\ tb' = r.tb
          /\ tb_result' = r.result
          /\ tb_pc' = IF r.result = "ok" THEN "filtered" ELSE "aborted"
    /\ tracks_before' = tb.consistent_tracks
    /\ filter_calls' = Min(filter_calls + 1, 2)
    /\ UNCHANGED <<track_file, reader, reader_result, reader_image_ids, build_input,
                   ufVars, vgVars, selVars, mstVars, loadVars>>

WriteToFile ==
    /\ tb_pc \in {"built", "filtered"}
    /\ track_file' = [exists |-> TRUE, data |-> write_to_file(tb)]
    /\ tb_result' = "ok"
    /\ tb_pc' = "written"
    /\ tracks_before' = tb.consistent_tracks
    /\ UNCHANGED filter_calls
    /\ UNCHANGED <<tb, reader, reader_result, reader_image_ids, build_input,
                   ufVars, vgVars, selVars, mstVars, loadVars>>

\* The image_ids arguments of read_from_file: None or a list of image ids.
AllowLists ==
    {NoImageIds} \cup {[given |-> TRUE, ids |-> ids] : ids \in {{}, {0}, {0, 12}}}

\* read_from_file(filename, image_ids) on a fresh TrackBuilder, reader, of the
\* file that tb has just written.
ReadFromFile(min_track_length, max_track_length, image_ids) ==
    /\ tb_pc = "written"
    /\ track_file.exists
    /\ \E r \in {read_from_file(TrackBuilder(min_track_length, max_track_length),
                                track_file.data, image_ids)} :
          /\ reader' = r.tb
          /\ reader_result' = r.result
    /\ reader_image_ids' = image_ids
    /\ tb_pc' = "read"
    /\ UNCHANGED <<tb, tb_result, tracks_before, filter_calls, track_file, build_input,
                   ufVars, vgVars, selVars, mstVars, loadVars>>

\* filter() on the reader, which read_from_file has filled.
FilterReader ==
    /\ tb_pc = "read"
    /\ reader_result = "ok"
    /\ \E r \in {filter(reader)} :
          /\ reader' = r.tb
          /\ reader_result' = r.result
    /\ tb_pc' = "reader_filtered"
    /\ UNCHANGED <<tb, tb_result, tracks_before, filter_calls, track_file,
                   reader_image_ids,
                   build_input, ufVars, vgVars, selVars, mstVars, loadVars>>

NextTrack ==
    \/ /\ tb_pc = "new"
       /\ \E track_elements \in ElementLists :
          \E track_element_pairs \in PairLists(Len(track_elements)) :
             Build(track_elements, track_element_pairs)
    \/ Filter
    \/ WriteToFile
    \/ \E min_track_length, max_track_length \in TrackLengths :
       \E image_ids \in AllowLists :
          ReadFromFile(min_track_length, max_track_length, image_ids)
    \/ FilterReader

SpecTrack == InitTrack /\ [][NextTrack]_vars

\* SpecBuild: build on a fresh TrackBuilder, with its arguments kept. The
\* track elements are the first n of a list with two observations in image 0.
CanonicalElements ==
    << TrackElement(0, 3), TrackElement(7, 3), TrackElement(0, 10),
       TrackElement(12, 10) >>

BuildRecorded(track_elements, track_element_pairs) ==
    /\ tb_pc = "new"
    /\ \E r \in {build(tb, track_elements, track_element_pairs)} :
          /\ tb' = r.tb
          /\ tb_result' = r.result
          /\ tb_pc' = IF r.result = "ok" THEN "built" ELSE "aborted"
    /\ tracks_before' = tb.consistent_tracks
    /\ UNCHANGED filter_calls
    /\ build_input' = [track_elements |-> track_elements,
                       track_element_pairs |-> track_element_pairs]
    /\ UNCHANGED <<track_file, reader, reader_result, reader_image_ids,
                   ufVars, vgVars, selVars, mstVars, loadVars>>

NextBuild ==
    /\ tb_pc = "new"
    /\ \E n \in 0 .. MaxElems :
       \E track_element_pairs \in PairLists(n) :
          BuildRecorded(SubSeq(CanonicalElements, 1, n), track_element_pairs)

SpecBuild == InitTrack /\ [][NextBuild]_vars

\* SpecVG: _load_view_graph on a pose-graph file of at most MaxPoseEdges
\* edges (in either direction, repeated or not) and a match-count table that
\* knows some of the image pairs.
MaxPoseEdges == 2

\* The image pairs (a, b) with a < b among the first three images.
CanonicalPairs == {<<0, 1>>, <<0, 2>>, <<1, 2>>}

\* The number of matches the database records for a pair, when it records
\* the pair: a different number for every pair.
RecordedMatches(pair) == 10 * pair[1] + pair[2]

PoseEdgeLists ==
    UNION {[1 .. n -> {e \in [src : 0 .. 2, dst : 0 .. 2, rot_deg : RotErrors, rel_pose : {0}] :
                           e.src # e.dst}] : n \in 0 .. MaxPoseEdges}

\* relative_poses[i], the pose read from the i-th edge line, stands for itself.
NumberPoses(edges) == [i \in 1 .. Len(edges) |-> [edges[i] EXCEPT !.rel_pose = i]]

InitVG ==
    /\ \E edges \in PoseEdgeLists : pose_edges = NumberPoses(edges)
    /\ \E known \in SUBSET CanonicalPairs :
          image_pair_to_matches_num = [pair \in known |-> RecordedMatches(pair)]
    /\ view_graph = [two_view_geometries |-> <<>>, graph |-> EmptyGraph]
    /\ vg_pc = "init"
    /\ NewUF
    /\ NewTB
    /\ NewSel
    /\ NewMst
    /\ NewLoad

LoadViewGraph ==
    /\ vg_pc = "init"
    /\ view_graph' = load_view_graph(pose_edges, image_pair_to_matches_num)
    /\ vg_pc' = "loaded"
    /\ UNCHANGED <<pose_edges, image_pair_to_matches_num, ufVars, tbVars, selVars, mstVars, loadVars>>

NextVG == LoadViewGraph

SpecVG == InitVG /\ [][NextVG]_vars

\* SpecSel: a data loader that selects nearby views in the view graph that
\* _load_view_graph built for a scene of four images.
MaxGraphEdges == 3
MaxSelect == 3

\* The match counts of the pairs: the example of the specification, and two
\* counts with the same priority level.
MatchCounts == {5, 20, 50, 402, 403}

ImagePairs == {pair \in Images \X Images : pair[1] < pair[2]}

\* The elements of a set of pairs as a list, smallest first.
RECURSIVE SortedPairs(_)
SortedPairs(pairs) ==
    IF pairs = {} THEN <<>>
    ELSE LET first == CHOOSE p \in pairs :
                          \A q \in pairs : p[1] < q[1] \/ (p[1] = q[1] /\ p[2] <= q[2])
         IN  <<first>> \o SortedPairs(pairs \ {first})

\* The train images of a scene: every image (google_scanned_objects.py), or
\* every image but the held-out image 0 (llff_test.py).
TrainImageLists == {<<0, 1, 2, 3>>, <<1, 2, 3>>}

InitSel ==
    /\ \E pairs \in {ps \in SUBSET ImagePairs : Cardinality(ps) <= MaxGraphEdges} :
          /\ pose_edges =
                 [i \in 1 .. Cardinality(pairs) |->
                     [src |-> SortedPairs(pairs)[i][1], dst |-> SortedPairs(pairs)[i][2],
                      rot_deg |-> 4, rel_pose |-> i]]
          /\ image_pair_to_matches_num \in [pairs -> MatchCounts]
    /\ view_graph = [two_view_geometries |-> <<>>, graph |-> EmptyGraph]
    /\ vg_pc = "init"
    /\ \E i_train \in TrainImageLists :
          /\ idx_to_node_id = [j \in 0 .. Len(i_train) - 1 |-> i_train[j + 1]]
          /\ node_id_to_idx = [n \in {i_train[j] : j \in 1 .. Len(i_train)} |->
                                   (CHOOSE j \in 1 .. Len(i_train) : i_train[j] = n) - 1]
    /\ nearby = [called |-> FALSE, target_id |-> 0, num_select |-> 0,
                 status |-> "none", select_ids |-> <<>>]
    /\ NewUF
    /\ NewTB
    /\ NewMst
    /\ NewLoad

\* One call of get_nearby_view_ids; the call changes nothing it reads, so a
\* behaviour shows one call.
GetNearbyViewIds(target_id, num_select) ==
    /\ vg_pc = "loaded"
    /\ ~nearby.called
    /\ \E r \in {get_nearby_view_ids(target_id, view_graph.graph, idx_to_node_id,
                                      node_id_to_idx, num_select)} :
          nearby' = [called |-> TRUE, target_id |-> target_id, num_select |-> num_select,
                     status |-> r.status, select_ids |-> r.select_ids]
    /\ UNCHANGED <<idx_to_node_id, node_id_to_idx, vgVars, ufVars, tbVars, mstVars, loadVars>>

NextSel ==
    \/ LoadViewGraph
    \/ \E target_id \in DOMAIN idx_to_node_id :
       \E num_select \in 0 .. MaxSelect :
          GetNearbyViewIds(target_id, num_select)

SpecSel == InitSel /\ [][NextSel]_vars

\* SpecMst: init_global_rotations_from_mst on two-view geometries of at most
\* MaxGraphEdges pairs of the images, from any reference image.
MstMatchCounts == {1, 5, 10}

\* The measured relative rotation of a pair: a different rotation for every
\* pair, no two of which commute.
RelativeRotation(pair) ==
    CASE pair = <<0, 1>> -> RotX
      [] pair = <<0, 2>> -> RotY
      [] pair = <<0, 3>> -> RotZ
      [] pair = <<1, 2>> -> MatMul(RotX, RotY)
      [] pair = <<1, 3>> -> MatMul(RotY, RotZ)
      [] pair = <<2, 3>> -> MatMul(RotZ, RotX)

num_rotations == Cardinality(Images)

InitMst ==
    /\ \E pairs \in {ps \in SUBSET ImagePairs : Cardinality(ps) <= MaxGraphEdges} :
       \E counts \in [pairs -> MstMatchCounts] :
          two_view_geometries =
              [i \in 1 .. Cardinality(pairs) |->
                  [key |-> SortedPairs(pairs)[i],
                   val |-> <<RelativeRotation(SortedPairs(pairs)[i]),
                             counts[SortedPairs(pairs)[i]]>>]]
    /\ ref_image_id \in Images
    /\ ref_image_rotation \in {Identity, RotZ}
    /\ mst_pc = "start"
    /\ mst = EmptyGraph
    /\ visited = <<>>
    /\ qu = <<>>
    /\ rotations = <<>>
    /\ init_global_rotations = <<>>
    /\ mst_log = NoLog
    /\ NewUF
    /\ NewTB
    /\ NewVG
    /\ NewSel
    /\ NewLoad

\* The edges (i, j) of the queue entries, in the order of the entries.
QueuedEdges(queue) == [k \in 1 .. Len(queue) |-> <<queue[k][2], queue[k][3]>>]

\* init_global_rotations_from_mst up to its while loop. mst.neighbors raises
\* NetworkXError when the reference image is no node of the tree.
MstStart ==
    /\ mst_pc = "start"
    /\ \E order \in SortedEdgeOrders(WeightedGraph(two_view_geometries, 1, EmptyGraph)) :
          LET graph == WeightedGraph(two_view_geometries, 1, EmptyGraph)
              tree  == minimum_spanning_tree(graph, order)
              vis   == [i \in 0 .. num_rotations - 1 |-> i = ref_image_id]
          IN  /\ mst' = tree
              /\ visited' = vis
              /\ rotations' = InitialRotations(num_rotations, ref_image_id,
                                               ref_image_rotation)
              /\ IF HasNode(tree, ref_image_id)
                 THEN /\ qu' = add_edges_to_heap(tree, vis, ref_image_id, <<>>)
                      /\ mst_pc' = "loop"
                 ELSE /\ qu' = <<>>
                      /\ mst_pc' = "raised"
              /\ mst_log' = [assigned |-> [i \in 0 .. num_rotations - 1 |-> 0],
                             queued   |-> QueuedEdges(qu')]
    /\ UNCHANGED <<two_view_geometries, ref_image_id, ref_image_rotation,
                   init_global_rotations, ufVars, tbVars, vgVars, selVars, loadVars>>

\* The body of the while loop for the entry edge that qu.get() returned,
\* rest being the queue without it.
MstPop(edge, rest) ==
    LET i == edge[2]
        j == edge[3]
    IN  IF visited[j]
        THEN /\ qu' = rest
             /\ UNCHANGED <<visited, rotations, mst_log>>
        ELSE /\ rotations' = compute_rotation(two_view_geometries, rotations, i, j)
             /\ visited' = [visited EXCEPT ![j] = TRUE]
             /\ qu' = add_edges_to_heap(mst, [visited EXCEPT ![j] = TRUE], j, rest)
             /\ mst_log' =
                    [assigned |-> [mst_log.assigned EXCEPT ![j] = @ + 1],
                     queued   |-> mst_log.queued \o
                                  QueuedEdges(add_edges_to_heap(
                                      mst, [visited EXCEPT ![j] = TRUE], j, <<>>))]

\* One iteration of the while loop.
MstStep ==
    /\ mst_pc = "loop"
    /\ Len(qu) > 0
    /\ MstPop(QueueMin(qu), QueueRest(qu))
    /\ UNCHANGED <<two_view_geometries, ref_image_id, ref_image_rotation, mst_pc, mst,
                   init_global_rotations, ufVars, tbVars, vgVars, selVars, loadVars>>

\* The queue is empty: the loop ends and the result is stored.
MstFinish ==
    /\ mst_pc = "loop"
    /\ Len(qu) = 0
    /\ init_global_rotations' = rotations
    /\ mst_pc' = "done"
    /\ UNCHANGED <<two_view_geometries, ref_image_id, ref_image_rotation, mst,
                   visited, qu, rotations, mst_log, ufVars, tbVars, vgVars, selVars,
                   loadVars>>

NextMst ==
    \/ MstStart
    \/ MstStep
    \/ MstFinish

SpecMst == InitMst /\ [][NextMst]_vars

\* The while loop with a queue that may hand out its entries in any order:
\* one iteration for whichever entry qu.get() returns.
MstStepAnyOrder ==
    /\ mst_pc = "loop"
    /\ Len(qu) > 0
    /\ \E k \in 1 .. Len(qu) :
          MstPop(qu[k], SubSeq(qu, 1, k - 1) \o SubSeq(qu, k + 1, Len(qu)))
    /\ UNCHANGED <<two_view_geometries, ref_image_id, ref_image_rotation, mst_pc, mst,
                   init_global_rotations, ufVars, tbVars, vgVars, selVars, loadVars>>

NextMstAnyOrder ==
    \/ MstStart
    \/ MstStepAnyOrder
    \/ MstFinish

\* init_global_rotations_from_mst for every order of popping the queue.
SpecMstAnyOrder == InitMst /\ [][NextMstAnyOrder]_vars

\* The while loop is sequential code that runs on until the queue is empty:
\* an iteration that can be taken is taken, and so is the exit of the loop.
\* The runs start from the reference rotation RotZ and match counts 1 and 5.
InitMstFair ==
    /\ InitMst
    /\ ref_image_rotation = RotZ
    /\ \A k \in 1 .. Len(two_view_geometries) : two_view_geometries[k].val[2] \in {1, 5}

SpecMstFair == InitMstFair /\ [][NextMst]_vars /\ WF_vars(MstStep) /\ WF_vars(MstFinish)

\* SpecLoad: load_track_elements on a database of up to two rows, each with
\* no matches blob or with up to MaxMatches matches.
MaxMatches == 2
RowCounts == 0 .. 2
DatabaseImagePairs == {<<1, 2>>, <<2, 3>>}
PointIndices == {0, 1}

\* The matches column of a row: None or a list of pairs of point indices.
MatchLists ==
    {NoMatches} \cup
    UNION {[1 .. n -> PointIndices \X PointIndices] : n \in 0 .. MaxMatches}

DatabaseRows ==
    {[image_id1 |-> pr[1], image_id2 |-> pr[2], matches |-> ms] :
        pr \in DatabaseImagePairs, ms \in MatchLists}

InitLoad ==
    /\ match_rows \in UNION {[1 .. n -> DatabaseRows] : n \in RowCounts}
    /\ load_pc = "start"
    /\ load_result = [track_elements |-> <<>>, track_element_pairs |-> <<>>]
    /\ NewUF
    /\ NewTB
    /\ NewVG
    /\ NewSel
    /\ NewMst

LoadTrackElements ==
    /\ load_pc = "start"
    /\ load_result' = load_track_elements(match_rows)
    /\ load_pc' = "done"
    /\ UNCHANGED <<match_rows, ufVars, tbVars, vgVars, selVars, mstVars>>

NextLoad == LoadTrackElements

SpecLoad == InitLoad /\ [][NextLoad]_vars

(***************************************************************************)
(* Properties                                                              *)
(***************************************************************************)

\* C1: with a cap m >= 1, after any sequence of union calls every component
\* has at most m members, and validate() has not raised its assertion.
CapInvariant ==
    uf.max_num_per_set # None =>
        /\ \A r \in Roots(uf) : Cardinality(Component(uf, r)) <= uf.max_num_per_set
        /\ validate_result # "AssertionError"

\* A component that has grown to exactly the cap, validated without error.
CapInvariantWitness ==
    /\ uf.max_num_per_set \in 2 .. UFSize - 1
    /\ \E r \in Roots(uf) : Cardinality(Component(uf, r)) = uf.max_num_per_set
    /\ validate_result = "ok"

\* The last call on tb was filter() and it returned.
FilterReturned == tb_pc = "filtered"

NoRepeatedImage(track) ==
    \A i, j \in 1 .. Len(track) : i # j => track[i].image_id # track[j].image_id

\* C2: after filter() returns, no track of consistent_tracks holds two
\* elements with the same image_id.
TrackUniqueness ==
    FilterReturned =>
        \A k \in 1 .. Len(tb.consistent_tracks) :
            NoRepeatedImage(tb.consistent_tracks[k].val)

\* filter() returned, a track held two elements of one image before the
\* call, and it is still there, shortened.
TrackUniquenessWitness ==
    /\ FilterReturned
    /\ \E k \in 1 .. Len(tracks_before) :
          /\ ~NoRepeatedImage(tracks_before[k].val)
          /\ DictHas(tb.consistent_tracks, tracks_before[k].key)
          /\ Len(DictGet(tb.consistent_tracks, tracks_before[k].key))
                 < Len(tracks_before[k].val)

\* C3: after build and then filter on a fresh TrackBuilder (tb is filled by
\* build alone, and only while it is fresh), the length of
\* every track is at least min_track_length and at most max_track_length.
TrackLengthBounds ==
    FilterReturned =>
        \A k \in 1 .. Len(tb.consistent_tracks) :
            /\ Len(tb.consistent_tracks[k].val) >= tb.min_track_length
            /\ Len(tb.consistent_tracks[k].val) <= tb.max_track_length

\* build and filter returned; filter removed a track that was too short and
\* left a track of max_track_length elements.
TrackLengthBoundsWitness ==
    /\ FilterReturned
    /\ \E k \in 1 .. Len(tracks_before) :
          Len(tracks_before[k].val) < tb.min_track_length
    /\ \E k \in 1 .. Len(tb.consistent_tracks) :
          Len(tb.consistent_tracks[k].val) = tb.max_track_length

Occurrences(track, e) == Cardinality({i \in 1 .. Len(track) : track[i] = e})

KeySet(d) == {d[i].key : i \in 1 .. Len(d)}

\* Two track dicts hold the same root ids and, under every root id, the same
\* elements the same number of times (in whatever order).
SameTracks(d1, d2) ==
    /\ KeySet(d1) = KeySet(d2)
    /\ \A k \in KeySet(d1) :
          LET t1 == DictGet(d1, k)
              t2 == DictGet(d2, k)
          IN  /\ Len(t1) = Len(t2)
              /\ \A i \in 1 .. Len(t1) : Occurrences(t1, t1[i]) = Occurrences(t2, t1[i])

\* C4: when a fresh TrackBuilder has read, with no image_ids, the file that
\* write_to_file wrote, it holds the tracks of the writer: the same root ids
\* and under each the same (image_id, point2D_idx) elements.
WriteReadRoundTrip ==
    (tb_pc = "read" /\ ~reader_image_ids.given) =>
        /\ reader_result = "ok"
        /\ SameTracks(reader.consistent_tracks, tb.consistent_tracks)

\* A file with two tracks, one of them with a two-digit image id and point
\* index, has been written and read back.
WriteReadRoundTripWitness ==
    /\ tb_pc = "read"
    /\ ~reader_image_ids.given
    /\ Len(tb.consistent_tracks) >= 2
    /\ Len(reader.consistent_tracks) >= 2
    /\ \E k \in 1 .. Len(reader.consistent_tracks) :
          \E i \in 1 .. Len(reader.consistent_tracks[k].val) :
              reader.consistent_tracks[k].val[i] = TrackElement(12, 10)

\* C7: every edge of two_view_geometries has exactly one inlier_mask, decided
\* by the rotation error e of its pose: 1.0 iff e < 5, 0.0 iff e > 15, else
\* 0.5; an error of exactly 5 or exactly 15 gives 0.5.
EdgeClassification ==
    vg_pc = "loaded" =>
        \A k \in 1 .. Len(view_graph.two_view_geometries) :
            LET tvg == view_graph.two_view_geometries[k].val
                e   == pose_edges[tvg.rel_pose].rot_deg
            IN  /\ tvg.inlier_mask \in {"1.0", "0.5", "0.0"}
                /\ tvg.inlier_mask = "1.0" <=> e < 5
                /\ tvg.inlier_mask = "0.0" <=> e > 15
                /\ (e = 5 \/ e = 15) => tvg.inlier_mask = "0.5"

\* A load_result view graph with an edge of error exactly 5 and an edge of error
\* exactly 15.
EdgeClassificationWitness ==
    /\ vg_pc = "loaded"
    /\ \E k \in 1 .. Len(view_graph.two_view_geometries) :
          pose_edges[view_graph.two_view_geometries[k].val.rel_pose].rot_deg = 5
    /\ \E k \in 1 .. Len(view_graph.two_view_geometries) :
          pose_edges[view_graph.two_view_geometries[k].val.rel_pose].rot_deg = 15

\* The pairs a < b that have a relative pose in the pose-graph file.
PairsWithPose ==
    {<<pose_edges[i].src, pose_edges[i].dst>> : i \in {j \in 1 .. Len(pose_edges) :
                                                   pose_edges[j].src < pose_edges[j].dst}}

\* C9: after _load_view_graph the edges of the graph are the keys of
\* two_view_geometries, which are the pairs a < b with a relative pose and a
\* match count; the weight of an edge is the num_matches recorded for it.
ViewGraphEdges ==
    vg_pc = "loaded" =>
        /\ EdgeSet(view_graph.graph) = KeySet(view_graph.two_view_geometries)
        /\ KeySet(view_graph.two_view_geometries)
              = PairsWithPose \cap DOMAIN image_pair_to_matches_num
        /\ \A pair \in EdgeSet(view_graph.graph) :
              /\ EdgeWeight(view_graph.graph, pair[1], pair[2])
                    = image_pair_to_matches_num[pair]
              /\ EdgeWeight(view_graph.graph, pair[2], pair[1])
                    = image_pair_to_matches_num[pair]
              /\ DictGet(view_graph.two_view_geometries, pair).num_matches
                    = image_pair_to_matches_num[pair]

\* A load_result view graph that kept one pair and dropped another, which has a
\* relative pose but no match count.
ViewGraphEdgesWitness ==
    /\ vg_pc = "loaded"
    /\ EdgeSet(view_graph.graph) # {}
    /\ PairsWithPose \ DOMAIN image_pair_to_matches_num # {}

\* The neighbours of the target of the last get_nearby_view_ids call that can
\* be selected: those that node_id_to_idx knows.
EligibleNeighbours ==
    LET target_node_id == idx_to_node_id[nearby.target_id] IN
    IF HasNode(view_graph.graph, target_node_id)
    THEN {j \in DOMAIN node_id_to_idx : HasEdge(view_graph.graph, target_node_id, j)}
    ELSE {}

\* The image ids that the last call returned.
ReturnedNodes == {idx_to_node_id[nearby.select_ids[i]] : i \in 1 .. Len(nearby.select_ids)}

\* C5: get_nearby_view_ids returns the highest-weight eligible neighbours: no
\* eligible neighbour that is left out has a strictly larger edge weight than
\* a neighbour that is returned.
SelectorTopK ==
    (nearby.called /\ nearby.status = "ok") =>
        LET target_node_id == idx_to_node_id[nearby.target_id] IN
        \A out \in EligibleNeighbours \ ReturnedNodes :
            \A in \in ReturnedNodes :
                EdgeWeight(view_graph.graph, target_node_id, out)
                    <= EdgeWeight(view_graph.graph, target_node_id, in)

\* C10: get_nearby_view_ids raises no error and returns min(num_select, n)
\* ids, all of them eligible neighbours, where n is the number of eligible
\* neighbours of the target, n = 0 for a target without an edge included.
SelectorFewNeighbours ==
    nearby.called =>
        /\ nearby.status = "ok"
        /\ Len(nearby.select_ids) = Min(nearby.num_select, Cardinality(EligibleNeighbours))
        /\ ReturnedNodes \subseteq EligibleNeighbours

\* The nodes joined to node n by a path of edges of two_view_geometries.
RECURSIVE Reachable(_)
Reachable(nodes) ==
    LET more == {m \in Images : \E n \in nodes :
                    DictHas(two_view_geometries, <<n, m>>)
                        \/ DictHas(two_view_geometries, <<m, n>>)}
    IN  IF more \subseteq nodes THEN nodes ELSE Reachable(nodes \cup more)

\* The view graph of the example: match counts (0,1): 10, (1,2): 5, (0,2): 1,
\* reference node 0.
MstExample ==
    /\ ref_image_id = 0
    /\ KeySet(two_view_geometries) = {<<0, 1>>, <<1, 2>>, <<0, 2>>}
    /\ DictGet(two_view_geometries, <<0, 1>>)[2] = 10
    /\ DictGet(two_view_geometries, <<1, 2>>)[2] = 5
    /\ DictGet(two_view_geometries, <<0, 2>>)[2] = 1

\* C6 as stated: on the example the spanning tree consists of the edges (0,2)
\* and (1,2), node 2 gets R_02 @ R_0 and node 1 gets R_12 @ R_2.
MstExampleAsStated ==
    (mst_pc = "done" /\ MstExample) =>
        /\ EdgeSet(mst) = {<<0, 2>>, <<1, 2>>}
        /\ init_global_rotations[2] = MatMul(RelativeRotation(<<0, 2>>), ref_image_rotation)
        /\ init_global_rotations[1] =
               MatMul(RelativeRotation(<<1, 2>>), init_global_rotations[2])

\* C6: with reference node 0 and match counts (0,1): 10, (1,2): 5, (0,2): 1
\* the spanning tree of init_global_rotations_from_mst (edge weight
\* 1/num_matches) consists of the edges (0,1) and (1,2); node 1 gets
\* R_01 @ R_0 and node 2 gets R_12 @ R_1.
MstExampleTree ==
    (mst_pc = "done" /\ MstExample) =>
        /\ EdgeSet(mst) = {<<0, 1>>, <<1, 2>>}
        /\ init_global_rotations[1] = MatMul(RelativeRotation(<<0, 1>>), ref_image_rotation)
        /\ init_global_rotations[2] =
               MatMul(RelativeRotation(<<1, 2>>), init_global_rotations[1])

MstExampleTreeWitness ==
    /\ mst_pc = "done"
    /\ MstExample
    /\ ref_image_rotation = RotZ
    /\ init_global_rotations[2] # Identity

\* C8: after init_global_rotations_from_mst every node without a path to the
\* reference node in the view graph holds the identity rotation, and the
\* reference node holds reference_rotation.
DisconnectedKeepIdentity ==
    mst_pc = "done" =>
        /\ \A n \in Images \ Reachable({ref_image_id}) : init_global_rotations[n] = Identity
        /\ init_global_rotations[ref_image_id] = ref_image_rotation

DisconnectedKeepIdentityWitness ==
    /\ mst_pc = "done"
    /\ ref_image_rotation = RotZ
    /\ \E n \in Images \ Reachable({ref_image_id}) : HasNode(mst, n)
    /\ \E m \in Reachable({ref_image_id}) \ {ref_image_id} :
          init_global_rotations[m] # Identity

\* The matches of the rows rows[r ..] in the order the loops visit them, each
\* with the image ids of its row.
RECURSIVE FlatMatches(_, _)
FlatMatches(rows, r) ==
    IF r > Len(rows) THEN <<>>
    ELSE IF rows[r].matches = NoMatches
         THEN FlatMatches(rows, r + 1)
         ELSE [k \in 1 .. Len(rows[r].matches) |->
                  <<TrackElement(rows[r].image_id1 - 1, rows[r].matches[k][1]),
                    TrackElement(rows[r].image_id2 - 1, rows[r].matches[k][2])>>]
              \o FlatMatches(rows, r + 1)

\* C11: every index in every pair that load_track_elements returns is below
\* len(track_elements) and denotes the element with the matched image_id and
\* point2D_idx, on the first and on every later occurrence of its key.
LoadDenseIndices ==
    load_pc = "done" =>
        /\ Len(load_result.track_element_pairs) = Len(FlatMatches(match_rows, 1))
        /\ \A k \in 1 .. Len(load_result.track_element_pairs) : \A side \in 1 .. 2 :
              /\ load_result.track_element_pairs[k][side] < Len(load_result.track_elements)
              /\ load_result.track_elements[load_result.track_element_pairs[k][side] + 1]
                     = FlatMatches(match_rows, 1)[k][side]

\* C12: after any sequence of union and find_root calls, with or without a
\* cap, component_size[r] of every root r is the number of nodes whose root
\* is r.
ComponentSizeExact ==
    \A r \in Roots(uf) : uf.component_size[r] = Cardinality(Component(uf, r))

\* Without a cap all nodes have become one component, and find_root has
\* compressed a path since.
ComponentSizeExactWitness ==
    /\ uf.max_num_per_set = None
    /\ \E r \in Roots(uf) : Cardinality(Component(uf, r)) = UFSize
    /\ uf_call.op = "find_root"
    /\ uf_call.compressed

\* The reference image has no edge in the view graph.
ReferenceWithoutEdge ==
    \A m \in Images :
        /\ ~DictHas(two_view_geometries, <<ref_image_id, m>>)
        /\ ~DictHas(two_view_geometries, <<m, ref_image_id>>)

\* C13: when the reference image has no edge in the view graph,
\* init_global_rotations_from_mst ends without raising an error, with the
\* reference at reference_rotation and every other node at identity.
ReferenceWithoutEdgeReturns ==
    (ReferenceWithoutEdge /\ mst_pc \notin {"start", "loop"}) =>
        /\ mst_pc = "done"
        /\ init_global_rotations =
               InitialRotations(num_rotations, ref_image_id, ref_image_rotation)

\* The elements of track whose image_id is in ids, in the order of track.
OfImages(track, ids) == SelectSeq(track, LAMBDA e : e.image_id \in ids)

\* C14: read_from_file with a list image_ids loads, for every track record of
\* the file, the elements of the record whose image_id is in image_ids, in
\* file order, and every record gets an entry under its root id, also when
\* all its elements are skipped. (The records of the file are the tracks of
\* the writer, in their order.)
ReadWithAllowList ==
    (tb_pc = "read" /\ reader_image_ids.given) =>
        /\ reader_result = "ok"
        /\ KeySet(reader.consistent_tracks) = KeySet(tb.consistent_tracks)
        /\ \A key \in KeySet(tb.consistent_tracks) :
              DictGet(reader.consistent_tracks, key)
                  = OfImages(DictGet(tb.consistent_tracks, key), reader_image_ids.ids)

\* A file of two tracks was read with a list that keeps a part of one track
\* and nothing of the other.
ReadWithAllowListWitness ==
    /\ tb_pc = "read"
    /\ reader_image_ids.given
    /\ \E key \in KeySet(tb.consistent_tracks) :
          DictGet(reader.consistent_tracks, key) = <<>>
    /\ \E key \in KeySet(tb.consistent_tracks) :
          /\ Len(DictGet(reader.consistent_tracks, key)) > 0
          /\ Len(DictGet(reader.consistent_tracks, key))
                 < Len(DictGet(tb.consistent_tracks, key))

\* The external ids of the nodes of uf.
NodeIds == DOMAIN uf.node_mapper

\* union(x, y) on u is rejected: x and y have the same root, or a cap is
\* configured and the sizes of their components add up to more than the cap.
Rejected(u, x, y) ==
    LET rx == RootOf(u, DenseIndex(u, x))
        ry == RootOf(u, DenseIndex(u, y))
    IN  \/ rx = ry
        \/ /\ u.max_num_per_set # None
           /\ u.component_size[rx] + u.component_size[ry] > u.max_num_per_set

\* C15: a union(x, y) call that is rejected leaves ranks, component_size and
\* the partition into components unchanged; it changes at most parents, by
\* path compression, and no node's root.
RejectedUnionFrame ==
    \A x, y \in NodeIds :
        Rejected(uf, x, y) =>
            LET v == union(uf, x, y) IN
            /\ v.ranks = uf.ranks
            /\ v.component_size = uf.component_size
            /\ v.nodes = uf.nodes
            /\ v.node_mapper = uf.node_mapper
            /\ v.max_num_per_set = uf.max_num_per_set
            /\ \A i \in DOMAIN uf.parents : RootOf(v, i) = RootOf(uf, i)

\* The last call was a union under a cap that was rejected and compressed a
\* path.
RejectedUnionFrameWitness ==
    /\ uf.max_num_per_set # None
    /\ uf_call.op = "union"
    /\ uf_call.rejected
    /\ uf_call.compressed

\* C16: find_root(x) returns a node r with parents[r] = r; it returns the
\* same r for y exactly when x and y were merged by accepted unions; its
\* path compression changes no node's root, and repeating it returns r again.
FindRootCanonical ==
    \A x \in NodeIds :
        LET f == find_root(uf, x) IN
        /\ f.uf.parents[f.root] = f.root
        /\ \A y \in NodeIds :
              (find_root(uf, y).root = f.root)
                  <=> (merged[DenseIndex(uf, x)] = merged[DenseIndex(uf, y)])
        /\ \A i \in DOMAIN uf.parents : RootOf(f.uf, i) = RootOf(uf, i)
        /\ find_root(f.uf, x).root = f.root

\* find_root has compressed a path of merged nodes.
FindRootCanonicalWitness ==
    /\ uf_call.op = "find_root"
    /\ uf_call.compressed
    /\ \E i, j \in DOMAIN merged : i # j /\ merged[i] = merged[j]

\* C17: a UnionFind with external ids from init_with_nodes and a UnionFind
\* with the identity mapping that gets the same calls on the dense indices
\* have the same partition and component sizes, accept and reject the same
\* unions, and validate with the same outcome.
DenseTwinAgrees ==
    /\ uf.parents = dense.uf.parents
    /\ uf.ranks = dense.uf.ranks
    /\ uf.component_size = dense.uf.component_size
    /\ validate_result = dense.validate_result
    /\ \A x, y \in NodeIds :
          UnionAccepted(uf, x, y)
              <=> UnionAccepted(dense.uf, DenseIndex(uf, x), DenseIndex(uf, y))

\* A UnionFind with external ids and a cap has merged nodes, has rejected a
\* union and has been validated.
DenseTwinAgreesWitness ==
    /\ uf.nodes # dense.uf.nodes
    /\ uf.max_num_per_set # None
    /\ validate_result = "ok"
    /\ \E r \in Roots(uf) : Cardinality(Component(uf, r)) >= 2
    /\ uf_call.op = "union"
    /\ uf_call.rejected

\* The elements of track that are the first of their image_id, in the order
\* of track.
FirstOccurrences(track) ==
    LET keep == {a \in 1 .. Len(track) :
                    \A b \in 1 .. a - 1 : track[b].image_id # track[a].image_id}
    IN  [k \in 1 .. Cardinality(keep) |->
            track[CHOOSE a \in keep : Cardinality({b \in keep : b <= a}) = k]]

\* C18: a track that has at least min_track_length elements before filter()
\* holds after it the first occurrences of its image ids, in the original
\* order, when these are at least min_track_length, and is removed
\* otherwise; a track without a repeated image_id is left unchanged.
FilterKeepsFirstOccurrences ==
    FilterReturned =>
        \A k \in 1 .. Len(tracks_before) :
            LET key   == tracks_before[k].key
                track == tracks_before[k].val
            IN  Len(track) >= tb.min_track_length =>
                    /\ IF Len(FirstOccurrences(track)) >= tb.min_track_length
                       THEN /\ DictHas(tb.consistent_tracks, key)
                            /\ DictGet(tb.consistent_tracks, key) = FirstOccurrences(track)
                       ELSE ~DictHas(tb.consistent_tracks, key)
                    /\ NoRepeatedImage(track) =>
                           /\ DictHas(tb.consistent_tracks, key)
                           /\ DictGet(tb.consistent_tracks, key) = track

\* filter() shortened a track with a repeated image, whose first element is
\* not its last of that image, and kept it.
FilterKeepsFirstOccurrencesWitness ==
    /\ FilterReturned
    /\ \E k \in 1 .. Len(tracks_before) :
          /\ DictHas(tb.consistent_tracks, tracks_before[k].key)
          /\ Len(DictGet(tb.consistent_tracks, tracks_before[k].key))
                 < Len(tracks_before[k].val)
          /\ tracks_before[k].val[1].image_id = tracks_before[k].val[2].image_id

\* C19: filter() discards every track shorter than min_track_length or
\* longer than max_track_length, whether build() or read_from_file() filled
\* consistent_tracks: no track longer than max_track_length survives.
FilterDiscardsLongTracks ==
    /\ FilterReturned =>
           \A k \in 1 .. Len(tb.consistent_tracks) :
               /\ Len(tb.consistent_tracks[k].val) >= tb.min_track_length
               /\ Len(tb.consistent_tracks[k].val) <= tb.max_track_length
    /\ (tb_pc = "reader_filtered" /\ reader_result = "ok") =>
           \A k \in 1 .. Len(reader.consistent_tracks) :
               /\ Len(reader.consistent_tracks[k].val) >= reader.min_track_length
               /\ Len(reader.consistent_tracks[k].val) <= reader.max_track_length

\* The union-find of build after its first loop, on the arguments kept.
BuildFinder ==
    UnionAll(UnionFind(Len(build_input.track_elements), tb.max_track_length),
             build_input.track_element_pairs, 1)

\* The places <<k, p>> of consistent_tracks: element p of the k-th track.
TrackPlaces ==
    {kp \in (1 .. Len(tb.consistent_tracks)) \X (1 .. Len(build_input.track_elements)) :
        kp[2] <= Len(tb.consistent_tracks[kp[1]].val)}

\* C20: after build() on a fresh TrackBuilder consistent_tracks partitions
\* the input: every track element is in exactly one track, two elements are
\* in the same track exactly when they have the same union-find root, each
\* track is keyed by that root, and the lengths add up to len(track_elements).
BuildPartitions ==
    tb_pc = "built" =>
        LET te == build_input.track_elements IN
        /\ Cardinality(TrackPlaces) = Len(te)
        /\ \A i \in 1 .. Len(te) :
              /\ Cardinality({kp \in TrackPlaces :
                                 tb.consistent_tracks[kp[1]].val[kp[2]] = te[i]}) = 1
              /\ \E kp \in TrackPlaces :
                    /\ tb.consistent_tracks[kp[1]].val[kp[2]] = te[i]
                    /\ tb.consistent_tracks[kp[1]].key = RootOf(BuildFinder, i - 1)
        /\ \A kp, kq \in TrackPlaces :
              kp[1] # kq[1] => tb.consistent_tracks[kp[1]].key # tb.consistent_tracks[kq[1]].key

\* build() made two tracks, one of them of two elements, and the cap kept
\* the two ends of a pair apart.
BuildPartitionsWitness ==
    /\ tb_pc = "built"
    /\ Len(tb.consistent_tracks) = 2
    /\ \E k \in 1 .. 2 : Len(tb.consistent_tracks[k].val) = 2
    /\ \E k \in 1 .. Len(build_input.track_element_pairs) :
          RootOf(BuildFinder, build_input.track_element_pairs[k][1])
              # RootOf(BuildFinder, build_input.track_element_pairs[k][2])

\* The nodes joined to a node of nodes by a path of edges of the set edges.
RECURSIVE LinkedTo(_, _)
LinkedTo(edges, nodes) ==
    LET more == {m \in Images : \E n \in nodes : <<n, m>> \in edges \/ <<m, n>> \in edges}
    IN  IF more \subseteq nodes THEN nodes ELSE LinkedTo(edges, nodes \cup more)

\* num_matches of a pair of two_view_geometries.
NumMatches(pair) == DictGet(two_view_geometries, pair)[2]

\* C21: the tree along which the rotations are propagated is a minimum
\* spanning forest of the view graph under the weight 1/num_matches: its
\* edges are view-graph edges that join exactly the nodes the view graph
\* joins, none of its edges closes a cycle, and every tree edge on the cycle
\* that a view-graph edge outside the tree would close has at least the
\* num_matches of that outside edge.
MinimumSpanningForest ==
    mst_pc # "start" =>
        LET G == KeySet(two_view_geometries)
            T == EdgeSet(mst)
        IN  /\ T \subseteq G
            /\ DOMAIN mst.adj = UNION {{e[1], e[2]} : e \in G}
            /\ \A n \in Images : LinkedTo(T, {n}) = LinkedTo(G, {n})
            /\ \A t \in T : t[2] \notin LinkedTo(T \ {t}, {t[1]})
            /\ \A e \in G \ T : \A t \in T :
                  e[2] \notin LinkedTo(T \ {t}, {e[1]}) => NumMatches(t) >= NumMatches(e)

\* The view graph has a cycle, and the edge left out of the tree has fewer
\* matches than a tree edge of the cycle it would close.
MinimumSpanningForestWitness ==
    /\ mst_pc = "done"
    /\ \E e \in KeySet(two_view_geometries) \ EdgeSet(mst) : \E t \in EdgeSet(mst) :
          /\ e[2] \notin LinkedTo(EdgeSet(mst) \ {t}, {e[1]})
          /\ NumMatches(t) > NumMatches(e)

\* The relative rotation from i to j: the rotation stored for the canonical
\* pair, transposed when the step goes from the larger to the smaller id.
StepRotation(i, j) ==
    IF i < j
    THEN DictGet(two_view_geometries, <<i, j>>)[1]
    ELSE Transpose(DictGet(two_view_geometries, <<j, i>>)[1])

\* C22: every step of the propagation that reaches a new node j does so
\* over a tree edge from an already visited node i and sets
\* R_j = R_(i,j) @ R_i if i < j and R_j = transpose(R_(j,i)) @ R_i if i > j,
\* with R_i the rotation i holds before the step.
PropagationStepRule ==
    [][\A j \in Images :
          (mst_pc = "loop" /\ ~visited[j] /\ visited'[j]) =>
              \E i \in Images \ {j} :
                  /\ visited[i]
                  /\ HasNode(mst, i)
                  /\ HasEdge(mst, i, j)
                  /\ rotations'[j] = MatMul(StepRotation(i, j), rotations[i])
                  /\ \A n \in Images \ {j} : rotations'[n] = rotations[n]]_vars

\* From the reference node 1 the propagation has reached node 0 over the
\* reversed pair (0,1) and node 2 over the pair (1,2).
PropagationStepRuleWitness ==
    /\ mst_pc = "done"
    /\ ref_image_id = 1
    /\ ref_image_rotation = RotZ
    /\ {<<0, 1>>, <<1, 2>>} \subseteq EdgeSet(mst)
    /\ visited[0]
    /\ visited[2]

\* The pair of two_view_geometries of the tree edge between a and b.
CanonicalPair(a, b) == IF a < b THEN <<a, b>> ELSE <<b, a>>

\* The tree edges from a visited node a to a node b not yet visited.
FrontierEdges ==
    {e \in Images \X Images :
        /\ e[1] # e[2]
        /\ CanonicalPair(e[1], e[2]) \in EdgeSet(mst)
        /\ visited[e[1]]
        /\ ~visited[e[2]]}

\* C23: at every step of the propagation the edge taken from the queue has
\* the key floor((1/num_matches) * 1e5) of its pair and is the least of the
\* queued entries by key, then i, then j; no frontier edge leaving the
\* visited set has a smaller key, so none has more matches unless it shares
\* the key.
SmallestKeyFirst ==
    [][\A j \in Images :
          (mst_pc = "loop" /\ ~visited[j] /\ visited'[j]) =>
              \E k \in 1 .. Len(qu) :
                  /\ qu[k][3] = j
                  /\ rotations'[j] = MatMul(StepRotation(qu[k][2], j), rotations[qu[k][2]])
                  /\ qu[k][1] = 100000 \div NumMatches(CanonicalPair(qu[k][2], j))
                  /\ \A f \in 1 .. Len(qu) :
                        \/ qu[k][1] < qu[f][1]
                        \/ qu[k][1] = qu[f][1] /\ qu[k][2] < qu[f][2]
                        \/ qu[k][1] = qu[f][1] /\ qu[k][2] = qu[f][2] /\ qu[k][3] <= qu[f][3]
                  /\ \A e \in FrontierEdges :
                        /\ 100000 \div NumMatches(CanonicalPair(e[1], e[2])) >= qu[k][1]
                        /\ \/ NumMatches(CanonicalPair(e[1], e[2]))
                                  <= NumMatches(CanonicalPair(qu[k][2], j))
                           \/ 100000 \div NumMatches(CanonicalPair(e[1], e[2])) = qu[k][1]]_vars

\* A step has been taken and two edges of different keys are queued, the
\* one queued first with fewer matches.
SmallestKeyFirstWitness ==
    /\ mst_pc = "loop"
    /\ \E n \in Images \ {ref_image_id} : visited[n]
    /\ Len(qu) >= 2
    /\ qu[1][1] > qu[2][1]

\* The reference image is a node of the view graph.
ReferenceInGraph ==
    \E e \in KeySet(two_view_geometries) : ref_image_id \in {e[1], e[2]}

\* The loop has ended with an empty queue, having visited exactly the nodes
\* of the reference's component and assigned each of them but the reference
\* once.
PropagationComplete ==
    /\ mst_pc = "done"
    /\ Len(qu) = 0
    /\ {n \in Images : visited[n]} = Reachable({ref_image_id})
    /\ \A n \in Reachable({ref_image_id}) \ {ref_image_id} : mst_log.assigned[n] = 1
    /\ \A n \in Images \ Reachable({ref_image_id}) : mst_log.assigned[n] = 0
    /\ mst_log.assigned[ref_image_id] = 0
    /\ init_global_rotations[ref_image_id] = ref_image_rotation

\* No node's rotation has been assigned twice, the reference's never, and no
\* tree edge has been put on the queue twice, in either direction.
PropagationOnce ==
    mst_pc \in {"loop", "done"} =>
        /\ \A n \in Images : mst_log.assigned[n] <= 1
        /\ mst_log.assigned[ref_image_id] = 0
        /\ rotations[ref_image_id] = ref_image_rotation
        /\ \A a, b \in 1 .. Len(mst_log.queued) :
              a # b => CanonicalPair(mst_log.queued[a][1], mst_log.queued[a][2])
                           # CanonicalPair(mst_log.queued[b][1], mst_log.queued[b][2])
        /\ \A a \in 1 .. Len(mst_log.queued) :
              CanonicalPair(mst_log.queued[a][1], mst_log.queued[a][2]) \in EdgeSet(mst)

\* C24: when the reference is a node of the view graph (all node ids being
\* below num_rotations), the propagation loop, once entered, terminates with
\* an empty queue,
\* every node of the reference's connected component is visited and has its
\* rotation assigned exactly once, the reference rotation is never
\* overwritten, and no tree edge is queued more than once.
PropagationTerminates ==
    /\ (mst_pc = "loop" /\ ReferenceInGraph) ~> PropagationComplete
    /\ [](ReferenceInGraph => PropagationOnce)

\* The loop has ended after visiting three nodes besides the reference.
PropagationTerminatesWitness ==
    /\ mst_pc = "done"
    /\ ReferenceInGraph
    /\ Len(mst_log.queued) = 3
    /\ Cardinality(Reachable({ref_image_id})) = 4

\* The neighbour of n on its path to the reference in the tree.
TreeParent(n) ==
    CHOOSE p \in Images \ {n} :
        /\ CanonicalPair(p, n) \in EdgeSet(mst)
        /\ ref_image_id \in LinkedTo(EdgeSet(mst) \ {CanonicalPair(p, n)}, {p})

\* The ordered product of the relative rotations along the tree path from
\* the reference to n, applied to reference_rotation.
RECURSIVE PathRotation(_)
PathRotation(n) ==
    IF n = ref_image_id THEN ref_image_rotation
    ELSE MatMul(StepRotation(TreeParent(n), n), PathRotation(TreeParent(n)))

\* C27: for a fixed spanning tree and every order in which the queued edges
\* are popped, the rotation of every node reached so far, and in the result
\* of every node of the reference's tree, equals the ordered product of the
\* (transposed where reversed) relative rotations along its tree path from
\* the reference, applied to reference_rotation.
PathProductAnyOrder ==
    /\ mst_pc \in {"loop", "done"} =>
          \A n \in Images : visited[n] => rotations[n] = PathRotation(n)
    /\ mst_pc = "done" =>
          \A n \in LinkedTo(EdgeSet(mst), {ref_image_id}) :
              init_global_rotations[n] = PathRotation(n)

\* A node two tree edges away from the reference has been reached although
\* an edge at the reference with a smaller key is still queued.
PathProductAnyOrderWitness ==
    /\ mst_pc = "loop"
    /\ ref_image_rotation = RotZ
    /\ \E n \in Images \ {ref_image_id} :
          /\ visited[n]
          /\ TreeParent(n) # ref_image_id
          /\ \E k \in 1 .. Len(qu) :
                /\ qu[k][2] = ref_image_id
                /\ qu[k][1] < 100000 \div NumMatches(CanonicalPair(TreeParent(n), n))
                /\ qu[k][1] < 100000 \div NumMatches(CanonicalPair(ref_image_id, TreeParent(n)))

\* The key of the neighbour j of the target of the last call.
NeighbourKey(j) ==
    100000 \div EdgeWeight(view_graph.graph, idx_to_node_id[nearby.target_id], j)

\* What the last get_nearby_view_ids call would have selected had the graph
\* enumerated the target's neighbours in the order perm.
SelectedInOrder(perm) ==
    LET target_node_id == idx_to_node_id[nearby.target_id]
        nbrs == neighbors(view_graph.graph, target_node_id)
    IN  PopSelected(PutNeighbours(view_graph.graph, target_node_id,
                                  [k \in 1 .. Len(nbrs) |-> nbrs[perm[k]]],
                                  1, node_id_to_idx, <<>>),
                    0, nearby.num_select, node_id_to_idx, <<>>)

\* C25: the sequence get_nearby_view_ids returns is the same for every order
\* in which the graph enumerates the target's neighbours; it is ordered by
\* ascending key floor(1e5 / weight), ties by ascending node id, and, the
\* id tables being injective, holds no index twice.
SelectorDeterministic ==
    (nearby.called /\ nearby.status = "ok") =>
        LET ids == nearby.select_ids
            n   == Len(neighbors(view_graph.graph, idx_to_node_id[nearby.target_id]))
        IN  /\ \A perm \in Permutations(1 .. n) : SelectedInOrder(perm) = ids
            /\ \A a, b \in 1 .. Len(ids) :
                  a < b =>
                      \/ NeighbourKey(idx_to_node_id[ids[a]]) < NeighbourKey(idx_to_node_id[ids[b]])
                      \/ /\ NeighbourKey(idx_to_node_id[ids[a]])
                                = NeighbourKey(idx_to_node_id[ids[b]])
                         /\ idx_to_node_id[ids[a]] < idx_to_node_id[ids[b]]
            /\ \A a, b \in 1 .. Len(ids) : a # b => ids[a] # ids[b]

\* Three neighbours are returned, two of them with the same key.
SelectorDeterministicWitness ==
    /\ nearby.called
    /\ nearby.status = "ok"
    /\ Len(nearby.select_ids) = 3
    /\ \E a, b \in 1 .. 3 :
          /\ a # b
          /\ NeighbourKey(idx_to_node_id[nearby.select_ids[a]])
                 = NeighbourKey(idx_to_node_id[nearby.select_ids[b]])
    /\ \E a, b \in 1 .. 3 :
          NeighbourKey(idx_to_node_id[nearby.select_ids[a]])
              < NeighbourKey(idx_to_node_id[nearby.select_ids[b]])

\* C26: on a view graph built by _load_view_graph, with id tables that are
\* inverse to each other, get_nearby_view_ids raises no KeyError for a target
\* of the train set, and every index it returns is an index of the train set
\* other than the target's, that of a graph neighbour of the target known to
\* node_id_to_idx; neighbours unknown to node_id_to_idx are skipped.
SelectorExcludesTarget ==
    nearby.called =>
        /\ nearby.status # "KeyError"
        /\ nearby.status = "ok" =>
              \A k \in 1 .. Len(nearby.select_ids) :
                  /\ nearby.select_ids[k] # nearby.target_id
                  /\ nearby.select_ids[k] \in DOMAIN idx_to_node_id
                  /\ idx_to_node_id[nearby.select_ids[k]] \in DOMAIN node_id_to_idx
                  /\ HasEdge(view_graph.graph, idx_to_node_id[nearby.target_id],
                             idx_to_node_id[nearby.select_ids[k]])

\* The target has a neighbour that node_id_to_idx does not know, more ids
\* were asked for than were returned, and an id was returned.
SelectorExcludesTargetWitness ==
    /\ nearby.called
    /\ nearby.status = "ok"
    /\ \E j \in Images \ DOMAIN node_id_to_idx :
          HasEdge(view_graph.graph, idx_to_node_id[nearby.target_id], j)
    /\ Len(nearby.select_ids) >= 1
    /\ Len(nearby.select_ids) < nearby.num_select

\* C28: after any sequence of union calls, in any order, two nodes share a
\* component only if a chain of unioned pairs links them; without a cap they
\* share a component exactly if such a chain links them, so the partition is
\* that of the connected components of the graph of the unioned pairs.
PartitionOfUnionedPairs ==
    \A i, j \in DOMAIN uf.parents :
        /\ RootOf(uf, i) = RootOf(uf, j) => linked[i] = linked[j]
        /\ uf.max_num_per_set = None =>
              (linked[i] = linked[j] => RootOf(uf, i) = RootOf(uf, j))

\* With a cap a union has been rejected, which leaves two linked nodes in
\* different components.
PartitionOfUnionedPairsWitness ==
    /\ uf.max_num_per_set # None
    /\ \E i, j \in DOMAIN uf.parents :
          /\ linked[i] = linked[j]
          /\ RootOf(uf, i) # RootOf(uf, j)
    /\ \E r \in Roots(uf) : Cardinality(Component(uf, r)) >= 2

\* C29: filter() is idempotent: a filter() on tracks that an earlier
\* filter() left, at least one of them, returns, removes no track and no
\* element, and leaves consistent_tracks with the same root ids and the same
\* element lists; so would one more filter() after any filter() that returned.
FilterIdempotent ==
    /\ (filter_calls = 2 /\ tb_pc \in {"filtered", "aborted"}) =>
          /\ tb_pc = "filtered"
          /\ tb_result = "ok"
          /\ tb.consistent_tracks = tracks_before
    /\ FilterReturned =>
          /\ filter(tb).result = "ok"
          /\ filter(tb).tb = tb

\* A second filter() has run on what the first left, a track of three
\* elements among it.
FilterIdempotentWitness ==
    /\ filter_calls = 2
    /\ tb_pc = "filtered"
    /\ Len(tb.consistent_tracks) >= 1
    /\ \E k \in 1 .. Len(tb.consistent_tracks) : Len(tb.consistent_tracks[k].val) = 3

\* C30: a filter() that removes every track, like a build() given zero
\* track elements, does not return normally: the mean_track_length it
\* evaluates at its end raises ZeroDivisionError, and consistent_tracks is
\* left empty, whatever it held before the call. A call that leaves a track
\* raises no such error.
DivisionErrorOnNoTracks ==
    (tb_pc \in {"built", "filtered", "aborted"}
         /\ tb_result \notin {"KeyError", "AssertionError", "TypeError"}) =>
        /\ (Len(tb.consistent_tracks) = 0) <=> (tb_result = "ZeroDivisionError")
        /\ (tb_result = "ZeroDivisionError") <=> (tb_pc = "aborted")
        /\ (tb_pc = "aborted" /\ filter_calls > 0) =>
              Len(tracks_before) > 0 /\ Len(tb.consistent_tracks) = 0

\* filter() has removed every one of the tracks that build() had made.
DivisionErrorOnNoTracksWitness ==
    /\ tb_pc = "aborted"
    /\ tb_result = "ZeroDivisionError"
    /\ filter_calls = 1
    /\ Len(tracks_before) >= 1
    /\ Len(tb.consistent_tracks) = 0

====
